---- MODULE Spec2Model ----
(***************************************************************************)
(* Reminder delivery and webhook idempotency of voice-task-bot.            *)
(*                                                                         *)
(* The repository holds two backends that deliver reminders:               *)
(*   "task"     the Telegram scheduler (app/cron.ts, app/taskService.ts,   *)
(*              app/bot.ts and the second server in server.ts): a tick     *)
(*              claims an occurrence by inserting a SentReminder row;      *)
(*   "reminder" the minimal reminder bot (first server in server.ts): a    *)
(*              tick claims a reminder by a conditional status update.     *)
(* A deployment runs one of them; the variable variant says which.         *)
(* Every await of a handler is one step, so handlers interleave as the     *)
(* event loop and several processes allow.                                 *)
(***************************************************************************)
EXTENDS Integers, Sequences, FiniteSets, TLC

\* ---------------------------------------------------------------- bounds
NTicks == 2      \* concurrent invocations of the tick endpoint
MaxTasks == 1    \* rows ever created in Task / Reminder
MaxTime == 2     \* the clock runs over 0..MaxTime
MaxEvery == 1    \* recurrence intervals 1..MaxEvery
MaxBatch == 2    \* rows per table in the two-row scenarios
NOps == 1        \* concurrent button callbacks (done / cancel / box / activate)
NHooks == 2      \* deliveries to the webhook
MaxUpdates == 1  \* update ids Telegram hands out: 1..MaxUpdates
MaxDigests == 1  \* digests sent before the last daily run starts
MaxCreated == 3  \* rows created in the creation scenario

\* ------------------------------------------------------- program constants
CompletedCap == 15
BatchLimit == 100
TickBatchLimit == 100

Null == -1       \* SQL NULL / JavaScript null in a timestamp or integer column

TickIds == 1..NTicks
TaskIds == 1..MaxTasks
OpIds == 1..NOps
HookIds == 1..NHooks
UpdateIds == 1..MaxUpdates
Texts == UpdateIds     \* the text of update u is written u
Times == 0..MaxTime
Intervals == 1..MaxEvery
ChatIds == {"chatA"}
TaskStatus == {"active", "boxed", "completed", "canceled"}
OpKinds == {"done", "cancel", "box", "activate"}

VARIABLES
  variant,        \* "task" or "reminder": which backend is deployed
  clock,          \* what new Date() returns
  tasks,          \* table Task: id -> row
  issued,         \* number of ids handed out so far (ids are never reused)
  sentReminders,  \* table SentReminder: (taskId, scheduledAt) -> number of rows
  reminders,      \* table Reminder: id -> row
  ticks,          \* the running invocations of runCronTick
  ops,            \* the running button callbacks
  outbox,         \* messages Telegram accepted: message -> how many times
  processed,      \* table ProcessedUpdate: key -> number of rows
  hooks,          \* the deliveries to POST /telegram/webhook
  cron,           \* CRON_SECRET, OWNER_CHAT_ID and the last request for a tick per tick slot
  parse           \* the text command being handled and what the parser made of it

vars == <<variant, clock, tasks, issued, sentReminders, reminders, ticks, ops, outbox,
          processed, hooks, cron, parse>>

\* ------------------------------------------------------------- helpers
Min(a, b) == IF a <= b THEN a ELSE b

BagAdd(bag, k) == IF k \in DOMAIN bag THEN [bag EXCEPT ![k] = @ + 1] ELSE bag @@ (k :> 1)

BagCount(bag, k) == IF k \in DOMAIN bag THEN bag[k] ELSE 0

EmptyBag == <<>>

RECURSIVE SumOver(_, _)
SumOver(bag, keys) ==
  IF keys = {} THEN 0
  ELSE LET k == CHOOSE x \in keys : TRUE IN bag[k] + SumOver(bag, keys \ {k})

\* The orders in which a set can be listed.
Orderings(S) ==
  {s \in [1..Cardinality(S) -> S] : \A a, b \in 1..Cardinality(S) : a # b => s[a] # s[b]}

IdleTick == [pc |-> "idle", batch |-> <<>>, i |-> 0, sentAt |-> Null, count |-> 0]

\* The value of CRON_SECRET of a deployment that has one.
TheSecret == "s3cret"

\* No request has reached the cron routes on this slot.
NoRequest == [route |-> "none", header |-> "", status |-> 0]

IdleOp == [pc |-> "idle", kind |-> "none", id |-> 0, snap |-> Null]

NoTask == [status |-> "missing"]

\* A text command as the parsers see it: which date template it has, the
\* digits of its HH:MM token, its "каждые N ..." interval, whether it asks for
\* reminders, and the weekday it names (0 = Sunday), if any.
NoInput ==
  [form |-> "none", hh |-> 0, mm |-> 0, every |-> Null, asks |-> FALSE, weekday |-> Null]

\* No command has been handled.
NoParse == [input |-> NoInput, reason |-> "none"]

\* ------------------------------------------------ app/taskService.ts
\* What parseTaskSpec hands to createTaskFromText: a due instant or null, a
\* recurrence interval or null, and whether the text asks for reminders.
ParsedTaskSpecs ==
  {[text |-> x, dueAt |-> d, remindEveryMinutes |-> e, asksReminders |-> a] :
     x \in Texts, d \in Times \cup {Null}, e \in Intervals \cup {Null}, a \in BOOLEAN}

askReminderClarification(spec) == spec.asksReminders /\ spec.dueAt = Null

Mut_NewTaskRow_NextFromDueAlone(chatId, spec) ==
  [chatId |-> chatId,
   text |-> spec.text,
   status |-> IF spec.dueAt # Null THEN "active" ELSE "boxed",
   dueAt |-> spec.dueAt,
   remindEveryMinutes |-> spec.remindEveryMinutes,
   nextReminderAt |-> spec.dueAt,
   completedAt |-> Null,
   canceledAt |-> Null]

NewTaskRow(chatId, spec) ==
  [chatId |-> chatId,
   text |-> spec.text,
   status |-> IF spec.dueAt # Null THEN "active" ELSE "boxed",
   dueAt |-> spec.dueAt,
   remindEveryMinutes |-> spec.remindEveryMinutes,
   nextReminderAt |->
     IF spec.dueAt # Null /\ spec.remindEveryMinutes # Null THEN spec.dueAt ELSE Null,
   completedAt |-> Null,
   canceledAt |-> Null]

\* createTaskFromText: nothing is stored when the bot asks for a date instead.
createTaskFromText(chatId, spec) ==
  /\ variant = "task"
  /\ IF askReminderClarification(spec)
       THEN UNCHANGED <<tasks, issued>>
       ELSE /\ tasks' = tasks @@ ((issued + 1) :> NewTaskRow(chatId, spec))
            /\ issued' = issued + 1
  /\ UNCHANGED <<variant, parse, cron, processed, hooks, clock, sentReminders, reminders, ticks, ops, outbox>>

\* A bug: the task is looked up by id alone.
Mut_findTaskForChat_AnyChat(chatId, taskId) ==
  IF taskId \in DOMAIN tasks THEN tasks[taskId] ELSE NoTask

findTaskForChat(chatId, taskId) ==
  IF taskId \in DOMAIN tasks /\ tasks[taskId].chatId = chatId THEN tasks[taskId] ELSE NoTask

\* markDone without its "already completed" guard.
Mut_EarlyReply_DoneUnguarded(kind, task) ==
  IF task = NoTask THEN "not_found"
  ELSE IF kind = "done" THEN
    IF task.status = "canceled" THEN "already_canceled" ELSE "none"
  ELSE IF kind = "cancel" THEN
    IF task.status = "canceled" THEN "already_canceled"
    ELSE IF task.status = "completed" THEN "already_done" ELSE "none"
  ELSE IF kind = "box" THEN
    IF task.status = "boxed" THEN "already_boxed"
    ELSE IF task.status = "completed" THEN "already_done"
    ELSE IF task.status = "canceled" THEN "already_canceled" ELSE "none"
  ELSE
    IF task.status = "active" THEN "already_active"
    ELSE IF task.status = "completed" THEN "already_done"
    ELSE IF task.status = "canceled" THEN "already_canceled"
    ELSE IF task.dueAt = Null THEN "need_due" ELSE "none"

\* A bug: activateTask without its check of dueAt.
Mut_EarlyReply_ActivateWithoutDue(kind, task) ==
  IF task = NoTask THEN "not_found"
  ELSE IF kind = "done" THEN
    IF task.status = "completed" THEN "already_done"
    ELSE IF task.status = "canceled" THEN "already_canceled" ELSE "none"
  ELSE IF kind = "cancel" THEN
    IF task.status = "canceled" THEN "already_canceled"
    ELSE IF task.status = "completed" THEN "already_done" ELSE "none"
  ELSE IF kind = "box" THEN
    IF task.status = "boxed" THEN "already_boxed"
    ELSE IF task.status = "completed" THEN "already_done"
    ELSE IF task.status = "canceled" THEN "already_canceled" ELSE "none"
  ELSE
    IF task.status = "active" THEN "already_active"
    ELSE IF task.status = "completed" THEN "already_done"
    ELSE IF task.status = "canceled" THEN "already_canceled" ELSE "none"

\* The reply of the early returns of markDone / cancelTask / boxTask /
\* activateTask, "none" when the action goes on to its update.
EarlyReply(kind, task) ==
  IF task = NoTask THEN "not_found"
  ELSE IF kind = "done" THEN
    IF task.status = "completed" THEN "already_done"
    ELSE IF task.status = "canceled" THEN "already_canceled" ELSE "none"
  ELSE IF kind = "cancel" THEN
    IF task.status = "canceled" THEN "already_canceled"
    ELSE IF task.status = "completed" THEN "already_done" ELSE "none"
  ELSE IF kind = "box" THEN
    IF task.status = "boxed" THEN "already_boxed"
    ELSE IF task.status = "completed" THEN "already_done"
    ELSE IF task.status = "canceled" THEN "already_canceled" ELSE "none"
  ELSE
    IF task.status = "active" THEN "already_active"
    ELSE IF task.status = "completed" THEN "already_done"
    ELSE IF task.status = "canceled" THEN "already_canceled"
    ELSE IF task.dueAt = Null THEN "need_due" ELSE "none"

\* The row after the prisma.task.update of the action, computed from the row
\* in the table and the copy `snap` the action read before.
UpdatedRow(kind, row, snap, now) ==
  IF kind = "done" THEN
    [row EXCEPT !.status = "completed", !.completedAt = now, !.nextReminderAt = Null]
  ELSE IF kind = "cancel" THEN
    [row EXCEPT !.status = "canceled", !.canceledAt = now, !.nextReminderAt = Null]
  ELSE IF kind = "box" THEN
    [row EXCEPT !.status = "boxed", !.nextReminderAt = Null]
  ELSE
    [row EXCEPT !.status = "active",
                !.nextReminderAt = IF snap.remindEveryMinutes # Null THEN snap.dueAt ELSE Null]

\* First await of a button callback: findTaskForChat and the guards.
TaskActionFind(o, kind, chatId, taskId) ==
  /\ variant = "task"
  /\ ops[o].pc = "idle"
  /\ LET task == findTaskForChat(chatId, taskId)
         early == EarlyReply(kind, task)
     IN ops' = [ops EXCEPT ![o] =
                  IF early # "none" THEN IdleOp
                  ELSE [pc |-> "update", kind |-> kind, id |-> taskId,
                        snap |-> [dueAt |-> task.dueAt,
                                  remindEveryMinutes |-> task.remindEveryMinutes]]]
  /\ UNCHANGED <<variant, parse, cron, processed, hooks, clock, tasks, issued, sentReminders, reminders, ticks, outbox>>

\* Second await: prisma.task.update({ where: { id } }); it throws when the row
\* is gone, which the callback handler answers with a failure reply.
TaskActionUpdate(o) ==
  /\ variant = "task"
  /\ ops[o].pc = "update"
  /\ LET id == ops[o].id IN
       IF id \in DOMAIN tasks
         THEN /\ tasks' = [tasks EXCEPT ![id] = UpdatedRow(ops[o].kind, tasks[id], ops[o].snap, clock)]
              /\ ops' = [ops EXCEPT ![o] = IdleOp]
         ELSE /\ UNCHANGED tasks
              /\ ops' = [ops EXCEPT ![o] = IdleOp]
  /\ UNCHANGED <<variant, parse, cron, processed, hooks, clock, issued, sentReminders, reminders, ticks, outbox>>

\* fetchDueReminderBatch: active recurring tasks due at `now`, earliest first,
\* at most `limit`; rows with equal nextReminderAt come in any order.
Mut_DueTaskIds_AnyStatus(now) ==
  {id \in DOMAIN tasks :
     /\ tasks[id].nextReminderAt # Null
     /\ tasks[id].nextReminderAt <= now
     /\ tasks[id].remindEveryMinutes # Null}

DueTaskIds(now) ==
  {id \in DOMAIN tasks :
     /\ tasks[id].status = "active"
     /\ tasks[id].nextReminderAt # Null
     /\ tasks[id].nextReminderAt <= now
     /\ tasks[id].remindEveryMinutes # Null}

\* The fields of a fetched task that runCronTick goes on to use.
TaskCopy(id) ==
  [id |-> id, chatId |-> tasks[id].chatId, nextReminderAt |-> tasks[id].nextReminderAt,
   remindEveryMinutes |-> tasks[id].remindEveryMinutes]

\* A bug: no orderBy, the rows come in any order.
Mut_fetchDueReminderBatch_Unordered(now, limit) ==
  {[k \in 1..Min(limit, Cardinality(DueTaskIds(now))) |-> TaskCopy(s[k])] :
     s \in Orderings(DueTaskIds(now))}

fetchDueReminderBatch(now, limit) ==
  {[k \in 1..Min(limit, Cardinality(DueTaskIds(now))) |-> TaskCopy(s[k])] :
     s \in {o \in Orderings(DueTaskIds(now)) :
              \A a, b \in 1..Cardinality(DueTaskIds(now)) :
                a < b => tasks[o[a]].nextReminderAt <= tasks[o[b]].nextReminderAt}}

\* A bug: no unique index on (taskId, scheduledAt), every insert succeeds.
Mut_tryCreateSentReminder_NoUnique(taskId, scheduledAt) ==
  IF taskId \notin DOMAIN tasks
    THEN [result |-> "throw", table |-> sentReminders]
    ELSE [result |-> "true", table |-> BagAdd(sentReminders, <<taskId, scheduledAt>>)]

\* tryCreateSentReminder: the insert succeeds ("true"), hits the unique index
\* on (taskId, scheduledAt) ("false"), or violates the foreign key to Task
\* ("throw": any error but P2002 is rethrown).
tryCreateSentReminder(taskId, scheduledAt) ==
  IF taskId \notin DOMAIN tasks
    THEN [result |-> "throw", table |-> sentReminders]
  ELSE IF BagCount(sentReminders, <<taskId, scheduledAt>>) > 0
    THEN [result |-> "false", table |-> sentReminders]
  ELSE [result |-> "true", table |-> BagAdd(sentReminders, <<taskId, scheduledAt>>)]

\* A bug: the interval is not added.
Mut_advanceNextReminder_NoAdd(task) == task.nextReminderAt

\* advanceNextReminder(task): computed from the tick's copy of the task.
advanceNextReminder(task) ==
  IF task.remindEveryMinutes = Null \/ task.nextReminderAt = Null
    THEN Null
    ELSE task.nextReminderAt + task.remindEveryMinutes

\* cleanupCompletedOverflow(cap): per chat, the completed tasks beyond the `cap`
\* most recently completed ones are deleted; deleting a task deletes its
\* SentReminder rows (ON DELETE CASCADE).
CompletedOverflow(cap) ==
  {id \in DOMAIN tasks :
     /\ tasks[id].status = "completed"
     /\ Cardinality({j \in DOMAIN tasks :
                       /\ j # id
                       /\ tasks[j].chatId = tasks[id].chatId
                       /\ tasks[j].status = "completed"
                       /\ \/ tasks[j].completedAt > tasks[id].completedAt
                          \/ tasks[j].completedAt = tasks[id].completedAt /\ j > id}) >= cap}

cleanupCompletedOverflow(cap) ==
  LET gone == CompletedOverflow(cap)
      keepTasks == DOMAIN tasks \ gone
      keepRows == {k \in DOMAIN sentReminders : k[1] \notin gone}
  IN /\ tasks' = [id \in keepTasks |-> tasks[id]]
     /\ sentReminders' = [k \in keepRows |-> sentReminders[k]]

\* ------------------------------------------------------- app/cron.ts
\* The message of one reminder; occurrence is the nextReminderAt of the tick's
\* copy of the task, the instant the reminder is sent for.
ReminderMessage(task) ==
  [kind |-> "reminder", chatId |-> task.chatId, id |-> task.id,
   occurrence |-> task.nextReminderAt]

\* Where the for loop of a tick goes after item i.
NextItem(tk) ==
  IF tk.i < Len(tk.batch) THEN [tk EXCEPT !.pc = "claim", !.i = tk.i + 1]
                          ELSE [IdleTick EXCEPT !.pc = "done", !.count = tk.count]

\* A bug: the result of the claim is ignored.
Mut_AfterClaim_Ignore(tk, unique) == [tk EXCEPT !.pc = "send"]

\* line 33: if (!unique) continue; a rethrown error ends the tick.
AfterClaim(tk, unique) ==
  IF unique = "true" THEN [tk EXCEPT !.pc = "send"]
  ELSE IF unique = "false" THEN NextItem(tk)
  ELSE [IdleTick EXCEPT !.pc = "failed"]

\* runCronTick, line 26: await cleanupCompletedOverflow(15).
TickCleanup(t) ==
  /\ variant = "task"
  /\ ticks[t].pc \in {"idle", "done", "failed", "authorized"}
  /\ cleanupCompletedOverflow(CompletedCap)
  /\ ticks' = [ticks EXCEPT ![t] = [IdleTick EXCEPT !.pc = "fetch"]]
  /\ UNCHANGED <<variant, parse, cron, processed, hooks, clock, issued, reminders, ops, outbox>>

\* line 27: const tasks = await fetchDueReminderBatch(100).
TickFetch(t) ==
  /\ variant = "task"
  /\ ticks[t].pc = "fetch"
  /\ \E batch \in fetchDueReminderBatch(clock, BatchLimit) :
       ticks' = [ticks EXCEPT ![t] =
                   [IdleTick EXCEPT !.batch = batch,
                                    !.pc = IF Len(batch) > 0 THEN "claim" ELSE "done",
                                    !.i = IF Len(batch) > 0 THEN 1 ELSE 0]]
  /\ UNCHANGED <<variant, parse, cron, processed, hooks, clock, tasks, issued, sentReminders, reminders, ops, outbox>>

\* lines 31-33: skip a task without nextReminderAt, else try the claim.
TickClaim(t) ==
  /\ variant = "task"
  /\ ticks[t].pc = "claim"
  /\ LET tk == ticks[t]
         task == tk.batch[tk.i]
     IN IF task.nextReminderAt = Null
          THEN /\ ticks' = [ticks EXCEPT ![t] = NextItem(tk)]
               /\ UNCHANGED sentReminders
          ELSE LET unique == tryCreateSentReminder(task.id, task.nextReminderAt)
               IN /\ sentReminders' = unique.table
                  /\ ticks' = [ticks EXCEPT ![t] = AfterClaim(tk, unique.result)]
  /\ UNCHANGED <<variant, parse, cron, processed, hooks, clock, tasks, issued, reminders, ops, outbox>>

\* lines 34-36: await bot.telegram.sendMessage(...), Telegram accepts it.
TickSendOk(t) ==
  /\ variant = "task"
  /\ ticks[t].pc = "send"
  /\ outbox' = BagAdd(outbox, ReminderMessage(ticks[t].batch[ticks[t].i]))
  /\ ticks' = [ticks EXCEPT ![t].pc = "advance"]
  /\ UNCHANGED <<variant, parse, cron, processed, hooks, clock, tasks, issued, sentReminders, reminders, ops>>

\* A bug (the other strategy of the design): the claim is rolled back when the
\* send throws.
Mut_TickSendFail_Rollback(t) ==
  /\ variant = "task"
  /\ ticks[t].pc = "send"
  /\ LET task == ticks[t].batch[ticks[t].i]
         keep == DOMAIN sentReminders \ {<<task.id, task.nextReminderAt>>}
     IN sentReminders' = [k \in keep |-> sentReminders[k]]
  /\ ticks' = [ticks EXCEPT ![t] = [IdleTick EXCEPT !.pc = "failed"]]
  /\ UNCHANGED <<variant, parse, cron, processed, hooks, clock, tasks, issued, reminders, ops, outbox>>

\* lines 34-36: sendMessage throws; nothing in runCronTick catches it, the
\* tick ends there (POST /cron/tick answers 500).
TickSendFail(t) ==
  /\ variant = "task"
  /\ ticks[t].pc = "send"
  /\ ticks' = [ticks EXCEPT ![t] = [IdleTick EXCEPT !.pc = "failed"]]
  /\ UNCHANGED <<variant, parse, cron, processed, hooks, clock, tasks, issued, sentReminders, reminders, ops, outbox>>

\* lines 37-38: await advanceNextReminder(task); processed += 1. The update
\* throws when the row was deleted meanwhile.
TickAdvance(t) ==
  /\ variant = "task"
  /\ ticks[t].pc = "advance"
  /\ LET tk == ticks[t]
         task == tk.batch[tk.i]
     IN IF task.id \in DOMAIN tasks
          THEN /\ tasks' = [tasks EXCEPT ![task.id].nextReminderAt = advanceNextReminder(task)]
               /\ ticks' = [ticks EXCEPT ![t] = NextItem([tk EXCEPT !.count = tk.count + 1])]
          ELSE /\ UNCHANGED tasks
               /\ ticks' = [ticks EXCEPT ![t] = [IdleTick EXCEPT !.pc = "failed"]]
  /\ UNCHANGED <<variant, parse, cron, processed, hooks, clock, issued, sentReminders, reminders, ops, outbox>>

\* ------------------------------------------ server.ts (reminder bot)
\* processTelegramUpdate, lines 295-318: a parsed command is stored as a
\* scheduled reminder; parseReminderCommand only succeeds with remindAt after now.
NewReminderRow(chatId, text, remindAt) ==
  [chatId |-> chatId, text |-> text, remindAt |-> remindAt, status |-> "scheduled",
   sentAt |-> Null]

createReminder(chatId, text, remindAt) ==
  /\ variant = "reminder"
  /\ remindAt > clock
  /\ reminders' = reminders @@ ((issued + 1) :> NewReminderRow(chatId, text, remindAt))
  /\ issued' = issued + 1
  /\ UNCHANGED <<variant, parse, cron, processed, hooks, clock, tasks, sentReminders, ticks, ops, outbox>>

\* runCronTick, lines 171-178: scheduled reminders due at `now`, earliest first.
DueReminderIds(now) ==
  {id \in DOMAIN reminders :
     reminders[id].status = "scheduled" /\ reminders[id].remindAt <= now}

ReminderCopy(id) ==
  [id |-> id, chatId |-> reminders[id].chatId, remindAt |-> reminders[id].remindAt]

dueReminders(now, limit) ==
  {[k \in 1..Min(limit, Cardinality(DueReminderIds(now))) |-> ReminderCopy(s[k])] :
     s \in {o \in Orderings(DueReminderIds(now)) :
              \A a, b \in 1..Cardinality(DueReminderIds(now)) :
                a < b => reminders[o[a]].remindAt <= reminders[o[b]].remindAt}}

\* A bug: the update is not conditional on status "scheduled".
Mut_claimReminder_Unconditional(id, sentAt) ==
  IF id \in DOMAIN reminders
    THEN [count |-> 1,
          table |-> [reminders EXCEPT ![id].status = "sent", ![id].sentAt = sentAt]]
    ELSE [count |-> 0, table |-> reminders]

\* lines 186-195: updateMany({ where: { id, status: "scheduled" } }); the
\* number of rows it changed and the table after it.
claimReminder(id, sentAt) ==
  IF id \in DOMAIN reminders /\ reminders[id].status = "scheduled"
    THEN [count |-> 1,
          table |-> [reminders EXCEPT ![id].status = "sent", ![id].sentAt = sentAt]]
    ELSE [count |-> 0, table |-> reminders]

\* A bug: the revert has no condition on sentAt and no id, every sent row goes
\* back to scheduled.
Mut_revertReminder_AllSent(id, sentAt) ==
  [r \in DOMAIN reminders |->
     IF reminders[r].status = "sent"
       THEN [reminders[r] EXCEPT !.status = "scheduled", !.sentAt = Null]
       ELSE reminders[r]]

\* lines 207-217: updateMany({ where: { id, status: "sent", sentAt } }).
revertReminder(id, sentAt) ==
  IF id \in DOMAIN reminders /\ reminders[id].status = "sent" /\ reminders[id].sentAt = sentAt
    THEN [reminders EXCEPT ![id].status = "scheduled", ![id].sentAt = Null]
    ELSE reminders

StatusReminderMessage(reminder) ==
  [kind |-> "reminder", chatId |-> reminder.chatId, id |-> reminder.id,
   occurrence |-> reminder.remindAt]

\* lines 197-199: if (claimed.count !== 1) continue.
AfterStatusClaim(tk, count, sentAt) ==
  IF count # 1 THEN NextItem(tk) ELSE [tk EXCEPT !.pc = "send", !.sentAt = sentAt]

\* lines 170-178: const now = new Date(); findMany(...).
RTickFetch(t) ==
  /\ variant = "reminder"
  /\ ticks[t].pc \in {"idle", "done", "failed", "authorized"}
  /\ \E batch \in dueReminders(clock, TickBatchLimit) :
       ticks' = [ticks EXCEPT ![t] =
                   [IdleTick EXCEPT !.batch = batch,
                                    !.pc = IF Len(batch) > 0 THEN "claim" ELSE "done",
                                    !.i = IF Len(batch) > 0 THEN 1 ELSE 0]]
  /\ UNCHANGED <<variant, parse, cron, processed, hooks, clock, tasks, issued, sentReminders, reminders, ops, outbox>>

\* lines 185-199: const sentAt = new Date(); the claim; continue unless 1 row.
RTickClaim(t) ==
  /\ variant = "reminder"
  /\ ticks[t].pc = "claim"
  /\ LET tk == ticks[t]
         claimed == claimReminder(tk.batch[tk.i].id, clock)
     IN /\ reminders' = claimed.table
        /\ ticks' = [ticks EXCEPT ![t] = AfterStatusClaim(tk, claimed.count, clock)]
  /\ UNCHANGED <<variant, parse, cron, processed, hooks, clock, tasks, issued, sentReminders, ops, outbox>>

\* lines 201-204: the send succeeds; sentCount += 1.
RTickSendOk(t) ==
  /\ variant = "reminder"
  /\ ticks[t].pc = "send"
  /\ LET tk == ticks[t] IN
       /\ outbox' = BagAdd(outbox, StatusReminderMessage(tk.batch[tk.i]))
       /\ ticks' = [ticks EXCEPT ![t] = NextItem([tk EXCEPT !.count = tk.count + 1, !.sentAt = Null])]
  /\ UNCHANGED <<variant, parse, cron, processed, hooks, clock, tasks, issued, sentReminders, reminders, ops>>

\* lines 205-206: the send throws and is caught.
RTickSendFail(t) ==
  /\ variant = "reminder"
  /\ ticks[t].pc = "send"
  /\ ticks' = [ticks EXCEPT ![t].pc = "revert"]
  /\ UNCHANGED <<variant, parse, cron, processed, hooks, clock, tasks, issued, sentReminders, reminders, ops, outbox>>

\* lines 207-218: the claim is reverted, the loop goes on.
RTickRevert(t) ==
  /\ variant = "reminder"
  /\ ticks[t].pc = "revert"
  /\ LET tk == ticks[t] IN
       /\ reminders' = revertReminder(tk.batch[tk.i].id, tk.sentAt)
       /\ ticks' = [ticks EXCEPT ![t] = NextItem([tk EXCEPT !.sentAt = Null])]
  /\ UNCHANGED <<variant, parse, cron, processed, hooks, clock, tasks, issued, sentReminders, ops, outbox>>

\* ------------------------------------------- server.ts (webhook, both)
\* The bodies Telegram and the smoke check post: update_id is a number or
\* missing, the chat is present or missing, and the message is
\*   "task"     a text that parses into a task / reminder,
\*   "ask"      a text answered without storing anything (the parser asks for
\*              a date, or reports a parse failure),
\*   "command"  /start or /help,
\*   "other"    no text at all.
UpdateKinds == {"task", "ask", "command", "other"}

\* message.chat.id of a body without a chat.
NoChat == "none"

Updates ==
  {[update_id |-> u, chatId |-> c, kind |-> k] :
     u \in UpdateIds, c \in ChatIds, k \in UpdateKinds}
  \cup {[update_id |-> u, chatId |-> NoChat, kind |-> "other"] : u \in UpdateIds \cup {Null}}

NoUpdate == [update_id |-> Null, chatId |-> NoChat, kind |-> "none"]

NoResponse == [status |-> 0, body |-> "none"]

\* Nothing parsed yet.
NotParsed == [text |-> Null]

IdleHook ==
  [pc |-> "idle", update |-> NoUpdate, resp |-> NoResponse, inserted |-> "unknown",
   parsed |-> NotParsed, failed |-> FALSE]

\* Telegram redelivers an update unchanged: one update_id, one body.
SameBodyAsBefore(upd) ==
  \A g \in HookIds :
    (hooks[g].pc # "idle" /\ upd.update_id # Null
       /\ hooks[g].update.update_id = upd.update_id) => hooks[g].update = upd

\* A reply of the bot to an update: the confirmation of a stored task or
\* reminder ("confirm"), the keyboard after it ("actions"), any other answer
\* ("info") or the apology after a failure ("error").
Reply(kind, chatId, text) == [kind |-> kind, chatId |-> chatId, text |-> text]

Finished(hk, resp) == [hk EXCEPT !.pc = "done", !.resp = resp]

\* What the parsers make of a "task" text at `now`.
TaskSpecsOf(text) ==
  {s \in ParsedTaskSpecs : s.text = text /\ ~askReminderClarification(s)}

RemindersOf(text, now) ==
  {[text |-> text, remindAt |-> at] : at \in {x \in 1..(MaxTime + 1) : x > now}}

\* server.ts, task backend: the chat of the ledger key.
LedgerChat(upd) == IF upd.chatId # NoChat THEN upd.chatId ELSE "unknown"

\* A bug: no unique index on ProcessedUpdate, every insert succeeds.
Mut_markProcessedUpdate_NoUnique(key) ==
  [inserted |-> "true", table |-> BagAdd(processed, key)]

\* A bug: upsert instead of create, the row stays single but every delivery
\* is told that it inserted it.
Mut_markProcessedUpdate_Upsert(key) ==
  [inserted |-> "true",
   table |-> IF BagCount(processed, key) > 0 THEN processed ELSE BagAdd(processed, key)]

\* markProcessedUpdate(chatId, updateId) with key <<chatId, updateId>> and
\* markUpdateProcessed(updateId) with key <<updateId>>: the insert, refused
\* by the unique index / primary key when the row is there.
markProcessedUpdate(key) ==
  IF BagCount(processed, key) > 0
    THEN [inserted |-> "false", table |-> processed]
    ELSE [inserted |-> "true", table |-> BagAdd(processed, key)]

\* ---- reminder bot: lines 347-354 and processTelegramUpdate, lines 225-336
\* The route answers 200 {ok:true} first; processTelegramUpdate then runs up
\* to its first await, returning at once without update_id or without chat.
RHookReceive(h, upd) ==
  /\ variant = "reminder"
  /\ hooks[h].pc = "idle"
  /\ SameBodyAsBefore(upd)
  /\ hooks' = [hooks EXCEPT ![h] =
       [IdleHook EXCEPT !.update = upd,
                        !.resp = [status |-> 200, body |-> "ok:true"],
                        !.pc = IF upd.update_id = Null \/ upd.chatId = NoChat
                                 THEN "done" ELSE "mark"]]
  /\ UNCHANGED <<variant, parse, cron, clock, tasks, issued, sentReminders, reminders, ticks, ops,
                 outbox, processed>>

\* lines 242-246: markUpdateProcessed; a duplicate returns. Lines 248-309: the
\* text is classified and parsed, and the next call is issued.
RHookMark(h) ==
  /\ variant = "reminder"
  /\ hooks[h].pc = "mark"
  /\ LET hk == hooks[h]
         marked == markProcessedUpdate(<<hk.update.update_id>>)
     IN /\ processed' = marked.table
        /\ \E at \in RemindersOf(hk.update.update_id, clock) :
             hooks' = [hooks EXCEPT ![h] =
               IF marked.inserted = "false"
                 THEN [hk EXCEPT !.pc = "done", !.inserted = "false"]
               ELSE IF hk.update.kind = "task"
                 THEN [hk EXCEPT !.pc = "create", !.inserted = "true", !.parsed = at]
               ELSE [hk EXCEPT !.pc = "reply", !.inserted = "true"]]
  /\ UNCHANGED <<variant, parse, cron, clock, tasks, issued, sentReminders, reminders, ticks, ops, outbox>>

\* lines 311-318: await prisma.reminder.create(...).
RHookCreate(h) ==
  /\ variant = "reminder"
  /\ hooks[h].pc = "create"
  /\ LET hk == hooks[h] IN
       /\ reminders' = reminders @@
            ((issued + 1) :> NewReminderRow(hk.update.chatId, hk.parsed.text, hk.parsed.remindAt))
       /\ issued' = issued + 1
       /\ hooks' = [hooks EXCEPT ![h].pc = "confirm"]
  /\ UNCHANGED <<variant, parse, cron, clock, tasks, sentReminders, ticks, ops, outbox, processed>>

\* lines 320-327: the confirmation is sent.
RHookConfirmOk(h) ==
  /\ variant = "reminder"
  /\ hooks[h].pc = "confirm"
  /\ outbox' = BagAdd(outbox, Reply("confirm", hooks[h].update.chatId, hooks[h].update.update_id))
  /\ hooks' = [hooks EXCEPT ![h].pc = "done"]
  /\ UNCHANGED <<variant, parse, cron, clock, tasks, issued, sentReminders, reminders, ticks, ops, processed>>

\* lines 248-309: the answer to a text that stores nothing is sent.
RHookReplyOk(h) ==
  /\ variant = "reminder"
  /\ hooks[h].pc = "reply"
  /\ outbox' = BagAdd(outbox, Reply("info", hooks[h].update.chatId, hooks[h].update.update_id))
  /\ hooks' = [hooks EXCEPT ![h].pc = "done"]
  /\ UNCHANGED <<variant, parse, cron, clock, tasks, issued, sentReminders, reminders, ticks, ops, processed>>

\* sendTelegramMessage throws; lines 351-353 log it and that is all.
RHookSendFail(h) ==
  /\ variant = "reminder"
  /\ hooks[h].pc \in {"confirm", "reply"}
  /\ hooks' = [hooks EXCEPT ![h].pc = "done", ![h].failed = TRUE]
  /\ UNCHANGED <<variant, parse, cron, clock, tasks, issued, sentReminders, reminders, ticks, ops,
                 outbox, processed>>

\* ---- task backend: lines 450-501 and app/bot.ts
\* lines 463-466: 400 without a numeric update_id; else up to the first await.
THookReceive(h, upd) ==
  /\ variant = "task"
  /\ hooks[h].pc = "idle"
  /\ SameBodyAsBefore(upd)
  /\ hooks' = [hooks EXCEPT ![h] =
       IF upd.update_id = Null
         THEN [IdleHook EXCEPT !.update = upd, !.pc = "done",
                               !.resp = [status |-> 400, body |-> "error"]]
         ELSE [IdleHook EXCEPT !.update = upd, !.pc = "mark"]]
  /\ UNCHANGED <<variant, parse, cron, clock, tasks, issued, sentReminders, reminders, ticks, ops,
                 outbox, processed>>

\* lines 482-488: markProcessedUpdate; a duplicate is answered at once; else
\* bot.handleUpdate runs the handler of the update up to its first await.
THookMark(h) ==
  /\ variant = "task"
  /\ hooks[h].pc = "mark"
  /\ LET hk == hooks[h]
         upd == hk.update
         marked == markProcessedUpdate(<<LedgerChat(upd), upd.update_id>>)
     IN /\ processed' = marked.table
        /\ \E spec \in TaskSpecsOf(upd.update_id) :
             hooks' = [hooks EXCEPT ![h] =
               IF marked.inserted = "false"
                 THEN [Finished(hk, [status |-> 200, body |-> "ok:true,duplicate:true"])
                         EXCEPT !.inserted = "false"]
               ELSE IF upd.kind = "task"
                 THEN [hk EXCEPT !.pc = "create", !.inserted = "true", !.parsed = spec]
               ELSE IF upd.kind = "ask"
                 THEN [hk EXCEPT !.pc = "answer", !.inserted = "true"]
               ELSE IF upd.kind = "command"
                 THEN [hk EXCEPT !.pc = "command", !.inserted = "true"]
               ELSE [Finished(hk, [status |-> 200, body |-> "ok:true"])
                       EXCEPT !.inserted = "true"]]
  /\ UNCHANGED <<variant, parse, cron, clock, tasks, issued, sentReminders, reminders, ticks, ops, outbox>>

\* createTaskFromText, lines 44-55: await prisma.task.create(...).
THookCreate(h) ==
  /\ variant = "task"
  /\ hooks[h].pc = "create"
  /\ tasks' = tasks @@ ((issued + 1) :> NewTaskRow(hooks[h].update.chatId, hooks[h].parsed))
  /\ issued' = issued + 1
  /\ hooks' = [hooks EXCEPT ![h].pc = "confirm"]
  /\ UNCHANGED <<variant, parse, cron, clock, sentReminders, reminders, ticks, ops, outbox, processed>>

\* handleTextIntent, line 87: await ctx.reply(created.reply).
THookConfirmOk(h) ==
  /\ variant = "task"
  /\ hooks[h].pc = "confirm"
  /\ outbox' = BagAdd(outbox, Reply("confirm", hooks[h].update.chatId, hooks[h].update.update_id))
  /\ hooks' = [hooks EXCEPT ![h].pc = "actions"]
  /\ UNCHANGED <<variant, parse, cron, clock, tasks, issued, sentReminders, reminders, ticks, ops, processed>>

\* handleTextIntent, lines 88-90: the keyboard is sent; handleUpdate
\* resolves and line 489 answers 200 {ok:true}.
THookActionsOk(h) ==
  /\ variant = "task"
  /\ hooks[h].pc = "actions"
  /\ outbox' = BagAdd(outbox, Reply("actions", hooks[h].update.chatId, hooks[h].update.update_id))
  /\ hooks' = [hooks EXCEPT ![h] = Finished(hooks[h], [status |-> 200, body |-> "ok:true"])]
  /\ UNCHANGED <<variant, parse, cron, clock, tasks, issued, sentReminders, reminders, ticks, ops, processed>>

\* handleTextIntent, line 87 after a clarification: the answer is sent.
THookAnswerOk(h) ==
  /\ variant = "task"
  /\ hooks[h].pc = "answer"
  /\ outbox' = BagAdd(outbox, Reply("info", hooks[h].update.chatId, hooks[h].update.update_id))
  /\ hooks' = [hooks EXCEPT ![h] = Finished(hooks[h], [status |-> 200, body |-> "ok:true"])]
  /\ UNCHANGED <<variant, parse, cron, clock, tasks, issued, sentReminders, reminders, ticks, ops, processed>>

\* bot.ts, lines 172-176: a reply of the text handler throws; it is caught,
\* safeReply tries an apology (delivered or not), handleUpdate resolves.
THookTextFail(h) ==
  /\ variant = "task"
  /\ hooks[h].pc \in {"confirm", "actions", "answer"}
  /\ \E delivered \in BOOLEAN :
       outbox' = IF delivered
                   THEN BagAdd(outbox, Reply("error", hooks[h].update.chatId,
                                             hooks[h].update.update_id))
                   ELSE outbox
  /\ hooks' = [hooks EXCEPT ![h] =
       [Finished(hooks[h], [status |-> 200, body |-> "ok:true"]) EXCEPT !.failed = TRUE]]
  /\ UNCHANGED <<variant, parse, cron, clock, tasks, issued, sentReminders, reminders, ticks, ops, processed>>

\* bot.ts, lines 103-117 and 131-140: the reply of /start or /help is sent.
THookCommandOk(h) ==
  /\ variant = "task"
  /\ hooks[h].pc = "command"
  /\ outbox' = BagAdd(outbox, Reply("info", hooks[h].update.chatId, hooks[h].update.update_id))
  /\ hooks' = [hooks EXCEPT ![h] = Finished(hooks[h], [status |-> 200, body |-> "ok:true"])]
  /\ UNCHANGED <<variant, parse, cron, clock, tasks, issued, sentReminders, reminders, ticks, ops, processed>>

\* A bug: the catch of the route answers 500.
Mut_THookCommandFail_Status500(h) ==
  /\ variant = "task"
  /\ hooks[h].pc = "command"
  /\ hooks' = [hooks EXCEPT ![h] =
       [Finished(hooks[h], [status |-> 500, body |-> "error"]) EXCEPT !.failed = TRUE]]
  /\ UNCHANGED <<variant, parse, cron, clock, tasks, issued, sentReminders, reminders, ticks, ops,
                 outbox, processed>>

\* The reply of a command throws, nothing in bot.ts catches it, handleUpdate
\* rejects; lines 490-500: the route tries an apology to the chat (delivered
\* or not) and answers 200 {ok:false}.
THookCommandFail(h) ==
  /\ variant = "task"
  /\ hooks[h].pc = "command"
  /\ \E delivered \in BOOLEAN :
       outbox' = IF delivered
                   THEN BagAdd(outbox, Reply("error", hooks[h].update.chatId,
                                             hooks[h].update.update_id))
                   ELSE outbox
  /\ hooks' = [hooks EXCEPT ![h] =
       [Finished(hooks[h], [status |-> 200, body |-> "ok:false"]) EXCEPT !.failed = TRUE]]
  /\ UNCHANGED <<variant, parse, cron, clock, tasks, issued, sentReminders, reminders, ticks, ops, processed>>

\* ------------------------------------------- server.ts (cron routes)
\* CRON_SECRET after trim: empty when it is not set. The task backend does not
\* start without it (loadConfig, app/cron.ts lines 84-91).
Secrets == {"", TheSecret}

\* The Authorization header of a request; "" when there is none.
Headers == {"", "Bearer ", "Bearer " \o TheSecret, "Bearer wrong"}

CronRoutes == {"tick", "daily"}

\* A bug: any Bearer header is accepted.
Mut_requireCronAuth_AnyBearer(header, secret) ==
  header \in {"Bearer ", "Bearer " \o TheSecret, "Bearer wrong"}

\* requireCronAuth, lines 405-413 (task backend): TRUE when the request goes on.
requireCronAuth(header, secret) == header = "Bearer " \o secret

\* isAuthorized, lines 338-341 (reminder bot).
isAuthorized(header, secret) == secret # "" /\ header = "Bearer " \o secret

\* The status a cron route answers before running anything; 0 when the request
\* goes on to run. The reminder bot has no route /cron/daily (express answers
\* 404) and answers 503 without CRON_SECRET (lines 356-366).
CronStatus(route, header, secret) ==
  IF variant = "task"
    THEN IF requireCronAuth(header, secret) THEN 0 ELSE 401
  ELSE IF route # "tick" THEN 404
  ELSE IF secret = "" THEN 503
  ELSE IF ~isAuthorized(header, secret) THEN 401
  ELSE 0

\* A request reaches POST /cron/tick or POST /cron/daily on slot t.
CronRequest(t, route, header) ==
  /\ ticks[t].pc \in {"idle", "done", "failed"}
  /\ LET status == CronStatus(route, header, cron.secret) IN
       /\ cron' = [cron EXCEPT !.reqs[t] =
                     [route |-> route, header |-> header, status |-> status]]
       /\ ticks' = IF status = 0
                     THEN [ticks EXCEPT ![t] = [IdleTick EXCEPT !.pc = "authorized"]]
                     ELSE ticks
  /\ UNCHANGED <<variant, parse, clock, tasks, issued, sentReminders, reminders, ops, outbox,
                 processed, hooks>>

\* lines 359-369 and 503-506: the authorized request calls runCronTick.
CronRunTick(t) ==
  /\ ticks[t].pc = "authorized"
  /\ cron.reqs[t].route = "tick"
  /\ TickCleanup(t) \/ RTickFetch(t)

\* listChatsWithTasks: the chats that have a task, in any order.
listChatsWithTasks ==
  LET chats == {tasks[id].chatId : id \in DOMAIN tasks}
  IN {[k \in 1..Cardinality(chats) |-> [chatId |-> s[k]]] : s \in Orderings(chats)}

\* listTodayActiveForDigest finds active tasks due today; every instant of the
\* model lies in one Moscow day.
ActiveToday(chatId) ==
  {id \in DOMAIN tasks :
     tasks[id].chatId = chatId /\ tasks[id].status = "active" /\ tasks[id].dueAt # Null}

DigestMessage(kind, chatId) == [kind |-> kind, chatId |-> chatId]

\* Where the for loop of runDailyDigest goes after chat i.
DigestNext(tk) ==
  IF tk.i < Len(tk.batch) THEN [tk EXCEPT !.pc = "digest", !.i = tk.i + 1]
                          ELSE [IdleTick EXCEPT !.pc = "done", !.count = tk.count]

\* lines 514-517 and runDailyDigest, app/cron.ts line 46.
CronRunDaily(t) ==
  /\ variant = "task"
  /\ ticks[t].pc = "authorized"
  /\ cron.reqs[t].route = "daily"
  /\ \E chats \in listChatsWithTasks :
       ticks' = [ticks EXCEPT ![t] =
                   [IdleTick EXCEPT !.batch = chats,
                                    !.pc = IF Len(chats) > 0 THEN "digest" ELSE "done",
                                    !.i = IF Len(chats) > 0 THEN 1 ELSE 0]]
  /\ UNCHANGED <<variant, parse, cron, clock, tasks, issued, sentReminders, reminders, ops, outbox,
                 processed, hooks>>

\* app/cron.ts lines 51-52: the digest of a chat is read and sent.
DigestSendOk(t) ==
  /\ ticks[t].pc = "digest"
  /\ LET tk == ticks[t]
         chatId == tk.batch[tk.i].chatId
     IN /\ outbox' = BagAdd(outbox, DigestMessage("digest", chatId))
        /\ ticks' = [ticks EXCEPT ![t] =
                       IF ActiveToday(chatId) # {}
                         THEN [tk EXCEPT !.pc = "digestActions"]
                         ELSE DigestNext([tk EXCEPT !.count = tk.count + 1])]
  /\ UNCHANGED <<variant, parse, cron, clock, tasks, issued, sentReminders, reminders, ops,
                 processed, hooks>>

\* lines 53-60: the quick actions are sent; delivered += 1.
DigestActionsOk(t) ==
  /\ ticks[t].pc = "digestActions"
  /\ LET tk == ticks[t] IN
       /\ outbox' = BagAdd(outbox, DigestMessage("digestActions", tk.batch[tk.i].chatId))
       /\ ticks' = [ticks EXCEPT ![t] = DigestNext([tk EXCEPT !.count = tk.count + 1])]
  /\ UNCHANGED <<variant, parse, cron, clock, tasks, issued, sentReminders, reminders, ops,
                 processed, hooks>>

\* lines 61-63: a send throws, the error is logged, the loop goes on.
DigestSendFail(t) ==
  /\ ticks[t].pc \in {"digest", "digestActions"}
  /\ ticks' = [ticks EXCEPT ![t] = DigestNext(ticks[t])]
  /\ UNCHANGED <<variant, parse, cron, clock, tasks, issued, sentReminders, reminders, ops, outbox,
                 processed, hooks>>

\* --------------------------------------------------------- environment
\* Time passes.
Tick ==
  /\ clock < MaxTime
  /\ clock' = clock + 1
  /\ UNCHANGED <<variant, parse, cron, processed, hooks, tasks, issued, sentReminders, reminders, ticks, ops, outbox>>

\* The process restarts (the host puts it to sleep or redeploys): every running
\* handler is lost where it stood, the database stays.
Restart ==
  /\ \/ \E t \in TickIds : ticks[t].pc \notin {"idle", "done", "failed"}
     \/ \E o \in OpIds : ops[o].pc # "idle"
  /\ ticks' = [t \in TickIds |-> IdleTick]
  /\ ops' = [o \in OpIds |-> IdleOp]
  /\ UNCHANGED <<variant, parse, cron, processed, hooks, clock, tasks, issued, sentReminders, reminders, outbox>>

\* ------------------------------------------------------ specification
InitStore ==
  /\ clock = 0
  /\ tasks = <<>>
  /\ issued = 0
  /\ sentReminders = EmptyBag
  /\ reminders = <<>>
  /\ ticks = [t \in TickIds |-> IdleTick]
  /\ ops = [o \in OpIds |-> IdleOp]
  /\ outbox = EmptyBag
  /\ processed = EmptyBag
  /\ hooks = [h \in HookIds |-> IdleHook]

Init ==
  /\ variant \in {"task", "reminder"}
  /\ InitStore
  /\ cron = [secret |-> TheSecret, owner |-> "", reqs |-> [t \in TickIds |-> NoRequest]]
  /\ parse = NoParse

\* The steps of the ticks of either backend.
TickStep ==
  \/ \E t \in TickIds : TickCleanup(t)
  \/ \E t \in TickIds : TickFetch(t)
  \/ \E t \in TickIds : TickClaim(t)
  \/ \E t \in TickIds : TickSendOk(t)
  \/ \E t \in TickIds : TickSendFail(t)
  \/ \E t \in TickIds : TickAdvance(t)
  \/ \E t \in TickIds : RTickFetch(t)
  \/ \E t \in TickIds : RTickClaim(t)
  \/ \E t \in TickIds : RTickSendOk(t)
  \/ \E t \in TickIds : RTickSendFail(t)
  \/ \E t \in TickIds : RTickRevert(t)

\* One row per table, every handler, failures and restarts.
Next ==
  \/ \E c \in ChatIds, spec \in ParsedTaskSpecs : issued < MaxTasks /\ createTaskFromText(c, spec)
  \/ \E c \in ChatIds, x \in Texts, at \in Times : issued < MaxTasks /\ createReminder(c, x, at)
  \/ \E o \in OpIds, k \in OpKinds, c \in ChatIds, id \in TaskIds : TaskActionFind(o, k, c, id)
  \/ \E o \in OpIds : TaskActionUpdate(o)
  \/ TickStep
  \/ Tick
  \/ Restart

Spec == Init /\ [][Next]_vars

\* ------------------------------------------------- scenario: C1
\* One recurring task that is due, and every tick invoked once, all sends
\* succeeding, nobody else acting.
TheTask == CHOOSE id \in TaskIds : \A j \in TaskIds : id <= j

AllTicksDone == \A t \in TickIds : ticks[t].pc = "done"

\* Reminder messages Telegram accepted for task/reminder id.
RemindersSent(id) ==
  SumOver(outbox, {m \in DOMAIN outbox : m.kind = "reminder" /\ m.id = id})

InitOneDueTask ==
  /\ variant = "task"
  /\ \E due \in Times, every \in Intervals, c \in ChatIds, x \in Texts :
       tasks = (TheTask :> NewTaskRow(c, [text |-> x, dueAt |-> due,
                                          remindEveryMinutes |-> every,
                                          asksReminders |-> TRUE]))
  /\ clock \in Times
  /\ clock >= tasks[TheTask].dueAt
  /\ issued = 1
  /\ sentReminders = EmptyBag
  /\ reminders = <<>>
  /\ ticks = [t \in TickIds |-> IdleTick]
  /\ ops = [o \in OpIds |-> IdleOp]
  /\ outbox = EmptyBag
  /\ processed = EmptyBag
  /\ hooks = [h \in HookIds |-> IdleHook]
  /\ cron = [secret |-> TheSecret, owner |-> "", reqs |-> [t \in TickIds |-> NoRequest]]
  /\ parse = NoParse

TickInvokeOnce(t) == ticks[t].pc = "idle" /\ TickCleanup(t)

\* The invocations are concurrent: all of them are in flight before the first
\* one gets its batch.
AllInvoked == \A t \in TickIds : ticks[t].pc # "idle"

NextConcurrentTicks ==
  \/ \E t \in TickIds : TickInvokeOnce(t)
  \/ \E t \in TickIds : AllInvoked /\ TickFetch(t)
  \/ \E t \in TickIds : TickClaim(t)
  \/ \E t \in TickIds : TickSendOk(t)
  \/ \E t \in TickIds : TickAdvance(t)
  \/ Tick

SpecConcurrentTicks == InitOneDueTask /\ [][NextConcurrentTicks]_vars

\* The occurrence that is due when the ticks start, and the one after it.
FirstOccurrence == tasks[TheTask].dueAt

SecondOccurrence == tasks[TheTask].dueAt + tasks[TheTask].remindEveryMinutes

\* C1 as stated: one due recurring task and NTicks concurrent ticks whose sends
\* all succeed give exactly one send, and nextReminderAt ends at the prior
\* value plus the interval.
C1_ExactlyOneSendAsStated ==
  AllTicksDone =>
    /\ RemindersSent(TheTask) = 1
    /\ tasks[TheTask].nextReminderAt = SecondOccurrence

\* C1 amended: when all ticks have finished, each occurrence was sent at most
\* once, the first one was sent, and nextReminderAt stands one interval after
\* the last occurrence sent; if the second occurrence is not yet due, exactly
\* one reminder was sent and nextReminderAt is the prior value plus the interval.
C1_ExactlyOneSendWhileNextNotDue ==
  /\ \A m \in DOMAIN outbox : outbox[m] <= 1
  /\ AllTicksDone =>
       /\ RemindersSent(TheTask) >= 1
       /\ tasks[TheTask].nextReminderAt =
            FirstOccurrence + RemindersSent(TheTask) * tasks[TheTask].remindEveryMinutes
       /\ clock < SecondOccurrence =>
            /\ RemindersSent(TheTask) = 1
            /\ tasks[TheTask].nextReminderAt = SecondOccurrence

\* C1 witness: two ticks hold the same occurrence, one has sent it and the
\* other is about to try its claim, and the second occurrence is not due.
C1_Witness ==
  \E t1, t2 \in TickIds :
    /\ t1 # t2
    /\ ticks[t1].pc = "advance"
    /\ ticks[t2].pc = "claim"
    /\ ticks[t1].batch[1] = ticks[t2].batch[1]
    /\ clock < SecondOccurrence
    /\ RemindersSent(TheTask) = 1

\* ------------------------------------------------- claims under Spec
\* The occurrence a tick is working on.
CurrentKey(t) == <<ticks[t].batch[ticks[t].i].id, ticks[t].batch[ticks[t].i].nextReminderAt>>

OccurrenceSent(k) ==
  SumOver(outbox, {m \in DOMAIN outbox :
                     m.kind = "reminder" /\ m.id = k[1] /\ m.occurrence = k[2]})

\* C2: for every (task, scheduledAt) there is at most one SentReminder row and
\* at most one reminder was sent, whatever ticks overlapped or repeated, sends
\* failed or the process restarted.
C2_AtMostOncePerOccurrence ==
  variant = "task" =>
    /\ \A k \in DOMAIN sentReminders : sentReminders[k] <= 1
    /\ \A m \in DOMAIN outbox : m.kind = "reminder" => outbox[m] <= 1
    /\ \A m \in DOMAIN outbox :
         m.kind = "reminder" => BagCount(sentReminders, <<m.id, m.occurrence>>) = 1

\* C2 witness: an occurrence was sent and a tick holding the same occurrence
\* is about to try its claim.
C2_Witness ==
  /\ variant = "task"
  /\ \E t \in TickIds :
       /\ ticks[t].pc = "claim"
       /\ OccurrenceSent(CurrentKey(t)) = 1

\* C3: a tick never claims (and then sends) a task whose status is not active
\* at the moment of the claim.
C3_NoClaimOfInactiveTask ==
  [][\A t \in TickIds :
       (variant = "task" /\ ticks[t].pc = "claim" /\ ticks'[t].pc = "send") =>
          tasks[ticks[t].batch[ticks[t].i].id].status = "active"]_vars

\* C4: a task has nextReminderAt only while it is active and has a dueAt.
C4_NextReminderOnlyWhileActive ==
  \A id \in DOMAIN tasks :
    tasks[id].nextReminderAt # Null =>
      tasks[id].status = "active" /\ tasks[id].dueAt # Null

\* An occurrence that is claimed, was not sent, and that no tick is sending.
Orphaned(k) ==
  /\ BagCount(sentReminders, k) = 1
  /\ OccurrenceSent(k) = 0
  /\ \A t \in TickIds : ticks[t].pc = "send" => CurrentKey(t) # k

OccurrenceKeys == TaskIds \X (0..(MaxTime + MaxEvery))

\* C6: when the send of a tick throws, the SentReminder row of the occurrence
\* stays, and from then on the occurrence is never sent: it stays claimed,
\* unsent and with no tick sending it.
C6_ClaimSurvivesSendFailure ==
  [][/\ \A t \in TickIds :
          (variant = "task" /\ ticks[t].pc = "send" /\ ticks'[t].pc = "failed") =>
             /\ sentReminders' = sentReminders
             /\ \A k \in OccurrenceKeys : k = CurrentKey(t) => Orphaned(k)'
     /\ \A k \in OccurrenceKeys : (variant = "task" /\ Orphaned(k)) => Orphaned(k)']_vars

\* C6 witness: the send of an occurrence failed (claimed, never sent) and a
\* later tick that fetched the same occurrence is about to try its claim.
C6_Witness ==
  /\ variant = "task"
  /\ \E t \in TickIds :
       /\ ticks[t].pc = "claim"
       /\ Orphaned(CurrentKey(t))
       /\ \E u \in TickIds : ticks[u].pc = "failed"

\* ------------------------------------------- scenario: two rows per table
\* Two tasks / reminders, overlapping and repeated ticks, failing sends; no
\* button callbacks and no restart.
NextBatch ==
  \/ \E c \in ChatIds, spec \in ParsedTaskSpecs : issued < MaxBatch /\ createTaskFromText(c, spec)
  \/ \E c \in ChatIds, x \in Texts, at \in Times : issued < MaxBatch /\ createReminder(c, x, at)
  \/ TickStep
  \/ Tick

SpecBatch == Init /\ [][NextBatch]_vars

\* The row a tick of the reminder bot is working on.
CurrentReminder(t) == ticks[t].batch[ticks[t].i].id

\* C5: a tick sends an item only after its own claim of the item succeeded
\* (task backend: its SentReminder insert added the row; reminder bot: its
\* updateMany turned the row from scheduled to sent), sends nothing for an
\* item whose claim failed, and goes on to the next candidate.
C5_SendOnlyAfterOwnClaim ==
  [][/\ \A t \in TickIds :
          (ticks[t].pc # "send" /\ ticks'[t].pc = "send") =>
             /\ ticks[t].pc = "claim"
             /\ ticks'[t].batch = ticks[t].batch /\ ticks'[t].i = ticks[t].i
             /\ variant = "task" =>
                  /\ BagCount(sentReminders, CurrentKey(t)) = 0
                  /\ \A k \in OccurrenceKeys :
                       k = CurrentKey(t) => BagCount(sentReminders', k) = 1
             /\ variant = "reminder" =>
                  /\ reminders[CurrentReminder(t)].status = "scheduled"
                  /\ \A id \in TaskIds \cup (1..MaxBatch) :
                       id = CurrentReminder(t) =>
                         reminders'[id].status = "sent" /\ reminders'[id].sentAt = clock
     /\ \A t \in TickIds :
          (/\ ticks[t].pc = "claim"
           /\ ticks'[t] # ticks[t]
           /\ sentReminders' = sentReminders
           /\ reminders' = reminders) =>
             /\ outbox' = outbox
             /\ \/ ticks'[t].pc = "done"
                \/ /\ ticks'[t].pc = "claim"
                   /\ ticks'[t].i = ticks[t].i + 1
                   /\ ticks'[t].batch = ticks[t].batch
     /\ outbox' # outbox =>
          \E t \in TickIds :
            /\ ticks[t].pc = "send"
            /\ ticks'[t].pc # "send"
            /\ outbox' = BagAdd(outbox, IF variant = "task"
                                          THEN ReminderMessage(ticks[t].batch[ticks[t].i])
                                          ELSE StatusReminderMessage(ticks[t].batch[ticks[t].i]))
    ]_vars

\* C5 witness: a tick whose claim of its first item was refused went on and
\* is sending its second item.
C5_Witness ==
  \E t \in TickIds :
    /\ variant = "task"
    /\ ticks[t].pc = "send"
    /\ ticks[t].i = 2
    /\ ticks[t].count = 0
    /\ OccurrenceSent(<<ticks[t].batch[1].id, ticks[t].batch[1].nextReminderAt>>) = 1

\* ------------------------------------------------- scenario: C7
\* The reminder bot with one scheduled reminder that is due, every tick
\* invoked once, all sends succeeding.
TheReminder == CHOOSE id \in TaskIds : \A j \in TaskIds : id <= j

InitOneDueReminder ==
  /\ variant = "reminder"
  /\ \E at \in Times, c \in ChatIds, x \in Texts :
       reminders = (TheReminder :> NewReminderRow(c, x, at))
  /\ clock \in Times
  /\ clock >= reminders[TheReminder].remindAt
  /\ issued = 1
  /\ tasks = <<>>
  /\ sentReminders = EmptyBag
  /\ ticks = [t \in TickIds |-> IdleTick]
  /\ ops = [o \in OpIds |-> IdleOp]
  /\ outbox = EmptyBag
  /\ processed = EmptyBag
  /\ hooks = [h \in HookIds |-> IdleHook]
  /\ cron = [secret |-> TheSecret, owner |-> "", reqs |-> [t \in TickIds |-> NoRequest]]
  /\ parse = NoParse

RTickInvokeOnce(t) == ticks[t].pc = "idle" /\ RTickFetch(t)

NextConcurrentStatusTicks ==
  \/ \E t \in TickIds : RTickInvokeOnce(t)
  \/ \E t \in TickIds : RTickClaim(t)
  \/ \E t \in TickIds : RTickSendOk(t)
  \/ Tick

SpecConcurrentStatusTicks == InitOneDueReminder /\ [][NextConcurrentStatusTicks]_vars

\* C7: with NTicks concurrent ticks over one due reminder and sends
\* succeeding, the reminder is never sent twice, and once all ticks are done
\* it was sent exactly once and is stored as sent with a sentAt.
C7_StatusClaimExactlyOnce ==
  /\ RemindersSent(TheReminder) <= 1
  /\ AllTicksDone =>
       /\ RemindersSent(TheReminder) = 1
       /\ reminders[TheReminder].status = "sent"
       /\ reminders[TheReminder].sentAt # Null

\* C7 witness: one tick has sent the reminder and finished while another
\* tick that fetched the same reminder is about to try its claim.
C7_Witness ==
  \E t1, t2 \in TickIds :
    /\ ticks[t1].pc = "done" /\ ticks[t1].count = 1
    /\ ticks[t2].pc = "claim" /\ CurrentReminder(t2) = TheReminder
    /\ RemindersSent(TheReminder) = 1

\* ------------------------------------------------- scenario: webhook
\* Deliveries of updates to the webhook of either backend, each update
\* delivered up to NHooks times, one after another or at once, with replies
\* that may fail.
HookStep ==
  \/ \E h \in HookIds, upd \in Updates : RHookReceive(h, upd)
  \/ \E h \in HookIds : RHookMark(h)
  \/ \E h \in HookIds : RHookCreate(h)
  \/ \E h \in HookIds : RHookConfirmOk(h)
  \/ \E h \in HookIds : RHookReplyOk(h)
  \/ \E h \in HookIds : RHookSendFail(h)
  \/ \E h \in HookIds, upd \in Updates : THookReceive(h, upd)
  \/ \E h \in HookIds : THookMark(h)
  \/ \E h \in HookIds : THookCreate(h)
  \/ \E h \in HookIds : THookConfirmOk(h)
  \/ \E h \in HookIds : THookActionsOk(h)
  \/ \E h \in HookIds : THookAnswerOk(h)
  \/ \E h \in HookIds : THookTextFail(h)
  \/ \E h \in HookIds : THookCommandOk(h)
  \/ \E h \in HookIds : THookCommandFail(h)

NextWebhook == HookStep

SpecWebhook == Init /\ [][NextWebhook]_vars

\* The deliveries of update u so far.
Deliveries(u) == {h \in HookIds : hooks[h].pc # "idle" /\ hooks[h].update.update_id = u}

\* Rows stored for update u, confirmations sent for it, ledger rows of it.
Created(u) ==
  Cardinality({id \in DOMAIN tasks : tasks[id].text = u})
    + Cardinality({id \in DOMAIN reminders : reminders[id].text = u})

Confirmations(u) ==
  SumOver(outbox, {m \in DOMAIN outbox : m.kind = "confirm" /\ m.text = u})

LedgerRows(u) ==
  SumOver(processed, {k \in DOMAIN processed : k[Len(k)] = u})

\* The stores and the outbound messages.
effects == <<tasks, reminders, issued, sentReminders, processed, outbox>>

\* C8: however often and in whatever overlap one update id is delivered, it
\* has at most one ledger row, at most one stored task / reminder and at most
\* one confirmation; when all its deliveries are finished and no reply failed,
\* a "task" update has exactly one stored row and exactly one confirmation; the
\* delivery that finds the ledger row changes nothing and is answered 200 with
\* ok:true.
C8_SameUpdateOnce ==
  /\ [](\A u \in UpdateIds :
          /\ LedgerRows(u) <= 1
          /\ Created(u) <= 1
          /\ Confirmations(u) <= 1
          /\ (/\ Deliveries(u) # {}
              /\ \A h \in Deliveries(u) :
                   /\ hooks[h].pc = "done"
                   /\ ~hooks[h].failed
                   /\ hooks[h].update.kind = "task") =>
                Created(u) = 1 /\ Confirmations(u) = 1)
  /\ [][\A h \in HookIds :
          (hooks'[h] # hooks[h] /\ hooks'[h].inserted = "false") =>
             /\ effects' = effects
             /\ hooks'[h].pc = "done"
             /\ hooks'[h].resp.status = 200
             /\ hooks'[h].resp.body \in {"ok:true", "ok:true,duplicate:true"}]_vars

\* C8 witness: an update was delivered twice, both deliveries are finished,
\* one stored the row and sent the confirmation, the other found the ledger row.
C8_Witness ==
  \E u \in UpdateIds : \E h1, h2 \in Deliveries(u) :
    /\ hooks[h1].pc = "done" /\ hooks[h1].inserted = "true" /\ ~hooks[h1].failed
    /\ hooks[h2].pc = "done" /\ hooks[h2].inserted = "false"
    /\ Created(u) = 1
    /\ Confirmations(u) = 1

\* C9: a delivery writes to the store or calls Telegram only after its
\* request was answered.
C9_WorkOnlyAfterResponse ==
  [][\A h \in HookIds :
       (hooks'[h] # hooks[h] /\ effects' # effects) => hooks[h].resp # NoResponse]_vars

\* What was posted carried a numeric update_id.
Valid(upd) == upd.update_id # Null

DigestsSent == SumOver(outbox, {m \in DOMAIN outbox : m.kind = "digest"})

InitCron ==
  /\ variant \in {"task", "reminder"}
  /\ InitStore
  /\ \E secret \in Secrets :
       /\ variant = "task" => secret # ""
       /\ cron = [secret |-> secret, owner |-> "", reqs |-> [t \in TickIds |-> NoRequest]]
       /\ parse = NoParse

NextCron ==
  \/ \E c \in ChatIds, spec \in ParsedTaskSpecs : issued < MaxTasks /\ createTaskFromText(c, spec)
  \/ \E c \in ChatIds, x \in Texts, at \in Times : issued < MaxTasks /\ createReminder(c, x, at)
  \/ \E t \in TickIds, route \in CronRoutes, header \in Headers : CronRequest(t, route, header)
  \/ \E t \in TickIds : CronRunTick(t)
  \/ \E t \in TickIds : DigestsSent < MaxDigests /\ CronRunDaily(t)
  \/ \E t \in TickIds : DigestSendOk(t)
  \/ \E t \in TickIds : DigestActionsOk(t)
  \/ \E t \in TickIds : DigestSendFail(t)
  \/ \E t \in TickIds : TickFetch(t)
  \/ \E t \in TickIds : TickClaim(t)
  \/ \E t \in TickIds : TickSendOk(t)
  \/ \E t \in TickIds : TickAdvance(t)
  \/ \E t \in TickIds : RTickClaim(t)
  \/ \E t \in TickIds : RTickSendOk(t)
  \/ Tick

SpecCron == InitCron /\ [][NextCron]_vars

\* The header is missing or is not exactly "Bearer <configured secret>".
BadHeader(header, secret) == secret = "" \/ header # "Bearer " \o secret

\* A request arrives on slot t in this step.
Arrives(t) == cron'.reqs[t] # cron.reqs[t]

InitOneRecurringTask ==
  /\ variant = "task"
  /\ \E due \in Times, every \in Intervals, c \in ChatIds, x \in Texts :
       tasks = (TheTask :> NewTaskRow(c, [text |-> x, dueAt |-> due,
                                          remindEveryMinutes |-> every,
                                          asksReminders |-> TRUE]))
  /\ clock = 0
  /\ issued = 1
  /\ sentReminders = EmptyBag
  /\ reminders = <<>>
  /\ ticks = [t \in TickIds |-> IdleTick]
  /\ ops = [o \in OpIds |-> IdleOp]
  /\ outbox = EmptyBag
  /\ processed = EmptyBag
  /\ hooks = [h \in HookIds |-> IdleHook]
  /\ cron = [secret |-> TheSecret, owner |-> "", reqs |-> [t \in TickIds |-> NoRequest]]
  /\ parse = NoParse

NextRecurrence ==
  \/ \E t \in TickIds : TickCleanup(t)
  \/ \E t \in TickIds : TickFetch(t)
  \/ \E t \in TickIds : TickClaim(t)
  \/ \E t \in TickIds : TickSendOk(t)
  \/ \E t \in TickIds : TickAdvance(t)
  \/ Tick

SpecRecurrence ==
  /\ InitOneRecurringTask
  /\ [][NextRecurrence]_vars
  /\ \A t \in TickIds :
       /\ WF_vars(TickFetch(t))
       /\ WF_vars(TickClaim(t))
       /\ WF_vars(TickSendOk(t))
       /\ WF_vars(TickAdvance(t))

\* C12: the advance after the delivery of occurrence T leaves nextReminderAt
\* at T plus the interval; a tick whose query runs before nextReminderAt gets
\* an empty batch and so sends nothing, a tick whose query runs at or after it
\* gets the task with that occurrence; nothing is sent for an occurrence that
\* is not yet due; and an occurrence a tick holds is sent.
C12_RecurrenceNotBeforeNextReminder ==
  /\ [][\A t \in TickIds :
          /\ (ticks[t].pc = "advance" /\ ticks'[t] # ticks[t]) =>
                /\ OccurrenceSent(CurrentKey(t)) = 1
                /\ tasks'[TheTask].nextReminderAt =
                     ticks[t].batch[ticks[t].i].nextReminderAt
                       + tasks[TheTask].remindEveryMinutes
          /\ (ticks[t].pc = "fetch" /\ ticks'[t] # ticks[t]) =>
                IF clock < tasks[TheTask].nextReminderAt
                  THEN ticks'[t].batch = <<>> /\ ticks'[t].pc = "done"
                  ELSE ticks'[t].batch = <<TaskCopy(TheTask)>> /\ ticks'[t].pc = "claim"]_vars
  /\ [](\A m \in DOMAIN outbox : outbox[m] = 1 /\ m.occurrence <= clock)
  /\ \A k \in OccurrenceKeys :
       (\E t \in TickIds : ticks[t].pc = "claim" /\ CurrentKey(t) = k)
         ~> (OccurrenceSent(k) = 1)

\* C12 witness: the first occurrence was delivered, a tick that ran before the
\* next one was due has finished without sending, and nextReminderAt stands
\* one interval after the first occurrence.
C12_Witness ==
  /\ RemindersSent(TheTask) = 1
  /\ tasks[TheTask].nextReminderAt = SecondOccurrence
  /\ clock < SecondOccurrence
  /\ \E t \in TickIds : ticks[t].pc = "fetch"
  /\ \E t \in TickIds : ticks[t].pc = "done" /\ ticks[t].count = 0

\* ------------------------------------------------- scenario: one task
\* One active task with a due instant, recurring or one-shot, as
\* createTaskFromText stores it; the clock runs, ticks run again and again,
\* every send succeeds, nobody else acts.
InitOneTaskWithDue ==
  /\ variant = "task"
  /\ \E due \in Times, every \in Intervals \cup {Null}, c \in ChatIds, x \in Texts :
       tasks = (TheTask :> NewTaskRow(c, [text |-> x, dueAt |-> due,
                                          remindEveryMinutes |-> every,
                                          asksReminders |-> every # Null]))
  /\ clock = 0
  /\ issued = 1
  /\ sentReminders = EmptyBag
  /\ reminders = <<>>
  /\ ticks = [t \in TickIds |-> IdleTick]
  /\ ops = [o \in OpIds |-> IdleOp]
  /\ outbox = EmptyBag
  /\ processed = EmptyBag
  /\ hooks = [h \in HookIds |-> IdleHook]
  /\ cron = [secret |-> TheSecret, owner |-> "", reqs |-> [t \in TickIds |-> NoRequest]]
  /\ parse = NoParse

SpecOneTask ==
  /\ InitOneTaskWithDue
  /\ [][NextRecurrence]_vars
  /\ WF_vars(Tick)
  /\ \A t \in TickIds :
       /\ WF_vars(TickCleanup(t))
       /\ WF_vars(TickFetch(t))
       /\ WF_vars(TickClaim(t))
       /\ WF_vars(TickSendOk(t))
       /\ WF_vars(TickAdvance(t))

\* C13: a task with a due instant and no recurrence interval is sent exactly
\* one reminder by some tick at or after the due instant, and its
\* nextReminderAt is null afterwards; it is never sent more than one.
C13_OneShotDeliveredOnce ==
  /\ [](tasks[TheTask].remindEveryMinutes = Null => RemindersSent(TheTask) <= 1)
  /\ tasks[TheTask].remindEveryMinutes = Null =>
       <>(/\ RemindersSent(TheTask) = 1
          /\ tasks[TheTask].nextReminderAt = Null
          /\ clock >= tasks[TheTask].dueAt)

\* ------------------------------------------------- scenario: creation
\* Messages of every parsed shape arrive one after another on an empty store
\* and createTaskFromText handles each; nobody else acts.
InitCreate ==
  /\ variant = "task"
  /\ InitStore
  /\ cron = [secret |-> TheSecret, owner |-> "", reqs |-> [t \in TickIds |-> NoRequest]]
  /\ parse = NoParse

NextCreate ==
  \E c \in ChatIds, spec \in ParsedTaskSpecs : issued < MaxCreated /\ createTaskFromText(c, spec)

SpecCreate == InitCreate /\ [][NextCreate]_vars

\* C14: the row createTaskFromText stores carries the parsed due instant and
\* interval, has status active exactly when a due instant was parsed and boxed
\* otherwise, and has nextReminderAt equal to the due instant exactly when a
\* due instant and an interval are both present, null otherwise.
C14_CreatedStatusAndNextReminder ==
  /\ [](\A id \in DOMAIN tasks :
         /\ tasks[id].status = "active" <=> tasks[id].dueAt # Null
         /\ tasks[id].status = "boxed" <=> tasks[id].dueAt = Null
         /\ (tasks[id].dueAt # Null /\ tasks[id].remindEveryMinutes # Null)
              => tasks[id].nextReminderAt = tasks[id].dueAt
         /\ (tasks[id].dueAt = Null \/ tasks[id].remindEveryMinutes = Null)
              => tasks[id].nextReminderAt = Null)
  /\ [][issued' # issued =>
          /\ issued' = issued + 1
          /\ DOMAIN tasks' = DOMAIN tasks \cup {issued'}
          /\ \A id \in DOMAIN tasks : tasks'[id] = tasks[id]
          /\ \E spec \in ParsedTaskSpecs :
               /\ ~(spec.asksReminders /\ spec.dueAt = Null)
               /\ tasks'[issued'].dueAt = spec.dueAt
               /\ tasks'[issued'].remindEveryMinutes = spec.remindEveryMinutes
               /\ tasks'[issued'].text = spec.text]_vars

\* C14 witness: the store holds a boxed task without a due instant, an active
\* one-shot task with nextReminderAt null, and an active recurring task with
\* nextReminderAt at its due instant.
C14_Witness ==
  /\ \E id \in DOMAIN tasks :
       tasks[id].status = "boxed" /\ tasks[id].dueAt = Null /\ tasks[id].nextReminderAt = Null
  /\ \E id \in DOMAIN tasks :
       /\ tasks[id].status = "active" /\ tasks[id].remindEveryMinutes = Null
       /\ tasks[id].nextReminderAt = Null
  /\ \E id \in DOMAIN tasks :
       /\ tasks[id].status = "active" /\ tasks[id].remindEveryMinutes # Null
       /\ tasks[id].nextReminderAt = tasks[id].dueAt

\* ------------------------------------------------- claims about the buttons
\* markDone / cancelTask / boxTask / activateTask run from start to end at
\* time `now` on the row `id`, nothing else acting in between: the reply and
\* the row afterwards.
TargetStatus(kind) ==
  IF kind = "done" THEN "completed"
  ELSE IF kind = "cancel" THEN "canceled"
  ELSE IF kind = "box" THEN "boxed" ELSE "active"

AlreadyReply(status) ==
  IF status = "completed" THEN "already_done"
  ELSE IF status = "canceled" THEN "already_canceled"
  ELSE IF status = "boxed" THEN "already_boxed" ELSE "already_active"

RowAfterAction(kind, row, now) ==
  IF EarlyReply(kind, row) # "none" THEN row
  ELSE UpdatedRow(kind, row, [dueAt |-> row.dueAt,
                              remindEveryMinutes |-> row.remindEveryMinutes], now)

\* C15: on a task that is completed or canceled every action, and on a task
\* already in its target status the action with that target, replies
\* "already ..." for the status the task is in and leaves the row as it is;
\* an action applied a second time after itself leaves the row the first
\* application produced.
C15_GuardedTransitionsNoOp ==
  \A id \in DOMAIN tasks, kind \in OpKinds :
    LET row == findTaskForChat(tasks[id].chatId, id) IN
      /\ (row.status \in {"completed", "canceled"} \/ row.status = TargetStatus(kind)) =>
            /\ EarlyReply(kind, row) = AlreadyReply(row.status)
            /\ \A now \in Times : RowAfterAction(kind, row, now) = row
      /\ \A n1 \in Times : \A n2 \in {n \in Times : n >= n1} :
            RowAfterAction(kind, RowAfterAction(kind, row, n1), n2)
              = RowAfterAction(kind, row, n1)

\* C15 witness: a button callback has completed a task at an earlier time, so
\* a second markDone now would write a later completedAt if it were not a
\* no-op.
C15_Witness ==
  \E id \in DOMAIN tasks :
    /\ tasks[id].status = "completed"
    /\ tasks[id].completedAt # Null
    /\ tasks[id].completedAt < clock
    /\ \A o \in OpIds : ops[o].pc = "idle"

\* ------------------------------------------------- scenario: a boxed task
\* boxTask has completed on a recurring task and every tick that was running
\* then has ended: the row is boxed, its nextReminderAt null as boxTask left
\* it, or rewritten by the advance of a tick that had sent its reminder while
\* the task was being boxed. A second recurring task is active. All ticks
\* start from here, overlap and repeat, sends succeed or fail, the clock runs,
\* and nobody touches the boxed task.
OtherTask == TheTask + 1

InitBoxedAndActive ==
  /\ variant = "task"
  /\ \E due1 \in Times, every1 \in Intervals, due2 \in Times, every2 \in Intervals,
        c \in ChatIds, x \in Texts :
       LET created == NewTaskRow(c, [text |-> x, dueAt |-> due1,
                                     remindEveryMinutes |-> every1, asksReminders |-> TRUE])
           boxed == UpdatedRow("box", created,
                               [dueAt |-> due1, remindEveryMinutes |-> every1], 0)
           other == NewTaskRow(c, [text |-> x, dueAt |-> due2,
                                   remindEveryMinutes |-> every2, asksReminders |-> TRUE])
       IN \E next1 \in {Null} \cup {due1 + k * every1 : k \in 1..MaxTime} :
            tasks = (TheTask :> [boxed EXCEPT !.nextReminderAt = next1])
                      @@ (OtherTask :> other)
  /\ clock = 0
  /\ issued = 2
  /\ sentReminders = EmptyBag
  /\ reminders = <<>>
  /\ ticks = [t \in TickIds |-> IdleTick]
  /\ ops = [o \in OpIds |-> IdleOp]
  /\ outbox = EmptyBag
  /\ processed = EmptyBag
  /\ hooks = [h \in HookIds |-> IdleHook]
  /\ cron = [secret |-> TheSecret, owner |-> "", reqs |-> [t \in TickIds |-> NoRequest]]
  /\ parse = NoParse

NextBoxed ==
  \/ \E t \in TickIds : TickCleanup(t)
  \/ \E t \in TickIds : TickFetch(t)
  \/ \E t \in TickIds : TickClaim(t)
  \/ \E t \in TickIds : TickSendOk(t)
  \/ \E t \in TickIds : TickSendFail(t)
  \/ \E t \in TickIds : TickAdvance(t)
  \/ Tick

SpecBoxed == InitBoxedAndActive /\ [][NextBoxed]_vars

\* C16: while the task stays boxed, no tick that starts after boxTask has
\* completed fetches it, claims an occurrence of it or sends a reminder for
\* it, whatever its nextReminderAt and however late the clock.
C16_NoReminderWhileBoxed ==
  /\ tasks[TheTask].status = "boxed"
  /\ RemindersSent(TheTask) = 0
  /\ \A k \in DOMAIN sentReminders : k[1] # TheTask
  /\ \A t \in TickIds : \A i \in DOMAIN ticks[t].batch : ticks[t].batch[i].id # TheTask

\* C16 witness: the boxed task carries a nextReminderAt that has passed, and
\* a tick that started after the boxing has sent the reminder of the other
\* task and ended.
C16_Witness ==
  /\ tasks[TheTask].status = "boxed"
  /\ tasks[TheTask].nextReminderAt # Null
  /\ tasks[TheTask].nextReminderAt <= clock
  /\ RemindersSent(OtherTask) >= 1
  /\ \E t \in TickIds : ticks[t].pc = "done" /\ ticks[t].count >= 1

\* ------------------------------------------------------- the parsers
\* Instants are minutes since 00:00 UTC of day 0; a Moscow day is a day index.
MOSCOW_OFFSET_HOURS == 3

MinutesPerDay == 24 * 60

\* What an invalid Date stands for in a dueAt.
InvalidDate == -2

\* A bug: the parts are taken in UTC.
Mut_getMoscowNowParts_Utc(nowUtc) ==
  [day |-> nowUtc \div MinutesPerDay,
   hour |-> (nowUtc % MinutesPerDay) \div 60,
   minute |-> nowUtc % 60]

\* reminder bot: the Moscow date and time of an instant.
getMoscowNowParts(nowUtc) ==
  LET local == nowUtc + MOSCOW_OFFSET_HOURS * 60
  IN [day |-> local \div MinutesPerDay,
      hour |-> (local % MinutesPerDay) \div 60,
      minute |-> local % 60]

\* Date.UTC(year, month - 1, day, hour - 3, minute): out-of-range fields roll over.
toUtcFromMoscowDateTime(day, hour, minute) ==
  day * MinutesPerDay + (hour - MOSCOW_OFFSET_HOURS) * 60 + minute

\* A bug: the day is not moved.
Mut_addDaysMoscow_SameDay(day, daysToAdd) == day

addDaysMoscow(day, daysToAdd) == day + daysToAdd

NoTime == [valid |-> FALSE, hour |-> 0, minute |-> 0]

parseTime(hourRaw, minuteRaw) ==
  IF hourRaw < 0 \/ hourRaw > 23 \/ minuteRaw < 0 \/ minuteRaw > 59
    THEN NoTime
    ELSE [valid |-> TRUE, hour |-> hourRaw, minute |-> minuteRaw]

defaultTodayTime(nowUtc) ==
  LET hour == ((nowUtc + MOSCOW_OFFSET_HOURS * 60) % MinutesPerDay) \div 60
  IN IF hour < 10 THEN [hour |-> 10, minute |-> 0]
     ELSE IF hour + 1 > 23 THEN [hour |-> 23, minute |-> 59]
     ELSE [hour |-> hour + 1, minute |-> 10]

ParseFail(reason) == [ok |-> FALSE, reason |-> reason, remindAt |-> Null]

\* The tail of parseReminderCommand, lines 159-183, for the date and time the
\* matched template gave (the text of a matched template is never empty).
FinishParse(day, hour, minute, nowUtc) ==
  IF hour < 0 \/ minute < 0 THEN ParseFail("invalid_format")
  ELSE LET remindAt == toUtcFromMoscowDateTime(day, hour, minute)
       IN IF remindAt <= nowUtc THEN ParseFail("time_in_past")
          ELSE [ok |-> TRUE, reason |-> "ok", remindAt |-> remindAt]

\* A bug: the comparison with now is left out.
Mut_parseReminderCommand_NoPastCheck(input, nowUtc) ==
  LET moscowNow == getMoscowNowParts(nowUtc)
      time == parseTime(input.hh, input.mm)
      day == IF input.form \in {"tomorrow_at", "tomorrow"}
               THEN addDaysMoscow(moscowNow.day, 1) ELSE moscowNow.day
  IN IF input.form \in {"tomorrow_at", "today_at"} /\ ~time.valid THEN ParseFail("invalid_time")
     ELSE IF input.form \in {"tomorrow_at", "today_at"}
       THEN [ok |-> TRUE, reason |-> "ok",
             remindAt |-> toUtcFromMoscowDateTime(day, time.hour, time.minute)]
     ELSE IF input.form = "tomorrow"
       THEN [ok |-> TRUE, reason |-> "ok", remindAt |-> toUtcFromMoscowDateTime(day, 10, 0)]
     ELSE IF input.form = "today"
       THEN [ok |-> TRUE, reason |-> "ok",
             remindAt |-> toUtcFromMoscowDateTime(day, defaultTodayTime(nowUtc).hour,
                                                  defaultTodayTime(nowUtc).minute)]
     ELSE IF input.form = "day_elsewhere" THEN ParseFail("invalid_format")
     ELSE ParseFail("missing_date")

\* parseReminderCommand: the four templates in the order they are tried.
parseReminderCommand(input, nowUtc) ==
  LET moscowNow == getMoscowNowParts(nowUtc)
      time == parseTime(input.hh, input.mm)
  IN IF input.form = "tomorrow_at" THEN
       IF ~time.valid THEN ParseFail("invalid_time")
       ELSE FinishParse(addDaysMoscow(moscowNow.day, 1), time.hour, time.minute, nowUtc)
     ELSE IF input.form = "today_at" THEN
       IF ~time.valid THEN ParseFail("invalid_time")
       ELSE FinishParse(moscowNow.day, time.hour, time.minute, nowUtc)
     ELSE IF input.form = "tomorrow" THEN
       FinishParse(addDaysMoscow(moscowNow.day, 1), 10, 0, nowUtc)
     ELSE IF input.form = "today" THEN
       FinishParse(moscowNow.day, defaultTodayTime(nowUtc).hour,
                   defaultTodayTime(nowUtc).minute, nowUtc)
     ELSE IF input.form = "day_elsewhere" THEN ParseFail("invalid_format")
     ELSE ParseFail("missing_date")

\* task backend: formatInTimeZone(date, "Europe/Moscow", "yyyy-MM-dd").
mskDayKey(now) == (now + MOSCOW_OFFSET_HOURS * 60) \div MinutesPerDay

\* toUtcFromMsk(`${day}T${hh}:${mm}:00`): zonedTimeToUtc is a library call;
\* what it answers for an hour above 23 or a minute above 59 is not in the
\* source, an invalid Date or the instant rolled over.
toUtcFromMsk(day, hh, mm) ==
  IF hh <= 23 /\ mm <= 59
    THEN {day * MinutesPerDay + hh * 60 + mm - MOSCOW_OFFSET_HOURS * 60}
    ELSE {InvalidDate, day * MinutesPerDay + hh * 60 + mm - MOSCOW_OFFSET_HOURS * 60}

\* The zone of the host, in hours east of UTC: it is set where the process is
\* deployed, not in the source; UTC and Moscow time are the two it is run in.
SystemOffsetHours == {0, MOSCOW_OFFSET_HOURS}

\* nowInMsk(): utcToZonedTime gives a Date whose fields in the zone of the
\* host show the Moscow wall clock; the instant of that Date.
nowInMsk(now, sys) == now + MOSCOW_OFFSET_HOURS * 60 - sys * 60

\* base.getDay(): the weekday the host-zone fields of the Date show.
getDay(date, sys) == ((date + sys * 60) \div MinutesPerDay + 4) % 7

\* parseDueDateMsk, lines 334-344: delta days from nowInMsk() to the named
\* weekday, 7 when it is today's, and the Moscow day key of base + delta.
WeekdayTargetDay(input, now, sys) ==
  LET base == nowInMsk(now, sys)
      current == getDay(base, sys)
      delta == IF input.weekday - current <= 0 THEN input.weekday - current + 7
               ELSE input.weekday - current
  IN mskDayKey(base + delta * MinutesPerDay)

\* parseDueDateMsk: null without an HH:MM token or without a date word; the
\* digits of the token are used as they are.
parseDueDateMsk(input, now) ==
  IF input.form = "today_at" THEN toUtcFromMsk(mskDayKey(now), input.hh, input.mm)
  ELSE IF input.form = "tomorrow_at"
    THEN toUtcFromMsk(mskDayKey(now + MinutesPerDay), input.hh, input.mm)
  ELSE IF input.form = "weekday_at"
    THEN UNION {toUtcFromMsk(WeekdayTargetDay(input, now, sys), input.hh, input.mm) :
                  sys \in SystemOffsetHours}
  ELSE {Null}

parseFrequencyMinutes(input) == input.every

parseTaskSpec(input, text, now) ==
  {[text |-> text, dueAt |-> d, remindEveryMinutes |-> parseFrequencyMinutes(input),
    asksReminders |-> input.asks] : d \in parseDueDateMsk(input, now)}

\* ------------------------------------------------- scenario: one command
\* One text command reaches a bot whose store is empty, at some time of a
\* Moscow day, and is handled from start to end.
NowHours == {0, 9, 10, 14, 22, 23}

NowMinutes == {0, 30, 59}

InputHours == {0, 9, 10, 15, 21, 23, 24, 25}

InputMinutes == {0, 10, 30, 59, 60}

ParseNows == {toUtcFromMoscowDateTime(1, h, m) : h \in NowHours, m \in NowMinutes}

TimedInputs ==
  {[form |-> f, hh |-> h, mm |-> m, every |-> Null, asks |-> FALSE, weekday |-> Null] :
     f \in {"tomorrow_at", "today_at"}, h \in InputHours, m \in InputMinutes}

\* A weekday name of WEEKDAY_MAP and an HH:MM token, no other date.
WeekdayInputs ==
  {[form |-> "weekday_at", hh |-> h, mm |-> m, every |-> Null, asks |-> FALSE, weekday |-> d] :
     h \in {9, 21}, m \in {0, 30}, d \in 0..6}

ReminderInputs ==
  TimedInputs \cup
  {[form |-> f, hh |-> 0, mm |-> 0, every |-> Null, asks |-> FALSE, weekday |-> Null] :
     f \in {"tomorrow", "today", "day_elsewhere", "none"}}

TaskInputs ==
  {[i EXCEPT !.every = e, !.asks = a] :
     i \in TimedInputs \cup WeekdayInputs \cup {NoInput}, e \in Intervals \cup {Null},
     a \in BOOLEAN}

\* reminder bot, processTelegramUpdate from the parse on: a failed parse is
\* answered, a successful one stored.
ReminderCommand(input) ==
  /\ variant = "reminder"
  /\ parse = NoParse
  /\ LET parsed == parseReminderCommand(input, clock)
     IN /\ parse' = [input |-> input, reason |-> parsed.reason]
        /\ IF parsed.ok
             THEN \E c \in ChatIds, x \in Texts :
                    /\ reminders' = reminders @@ ((issued + 1) :> NewReminderRow(c, x, parsed.remindAt))
                    /\ issued' = issued + 1
             ELSE UNCHANGED <<reminders, issued>>
  /\ UNCHANGED <<variant, cron, processed, hooks, clock, tasks, sentReminders, ticks, ops, outbox>>

\* task backend, handleTextIntent: createTaskFromText on the parsed text;
\* prisma.task.create throws on an invalid Date.
TaskCommand(input) ==
  /\ variant = "task"
  /\ parse = NoParse
  /\ \E c \in ChatIds, x \in Texts : \E spec \in parseTaskSpec(input, x, clock) :
       IF askReminderClarification(spec)
         THEN /\ parse' = [input |-> input, reason |-> "ask_date"]
              /\ UNCHANGED <<tasks, issued>>
       ELSE IF spec.dueAt = InvalidDate
         THEN /\ parse' = [input |-> input, reason |-> "error"]
              /\ UNCHANGED <<tasks, issued>>
       ELSE /\ parse' = [input |-> input, reason |-> "created"]
            /\ tasks' = tasks @@ ((issued + 1) :> NewTaskRow(c, spec))
            /\ issued' = issued + 1
  /\ UNCHANGED <<variant, cron, processed, hooks, clock, reminders, sentReminders, ticks, ops, outbox>>

InitParse ==
  /\ variant \in {"task", "reminder"}
  /\ clock \in ParseNows
  /\ tasks = <<>>
  /\ issued = 0
  /\ sentReminders = EmptyBag
  /\ reminders = <<>>
  /\ ticks = [t \in TickIds |-> IdleTick]
  /\ ops = [o \in OpIds |-> IdleOp]
  /\ outbox = EmptyBag
  /\ processed = EmptyBag
  /\ hooks = [h \in HookIds |-> IdleHook]
  /\ cron = [secret |-> TheSecret, owner |-> "", reqs |-> [t \in TickIds |-> NoRequest]]
  /\ parse = NoParse

NextParse ==
  \/ \E input \in ReminderInputs : ReminderCommand(input)
  \/ \E input \in TaskInputs : TaskCommand(input)

SpecParse == InitParse /\ [][NextParse]_vars

\* The command has been handled by the bot of the given variant.
Handled(v) == variant = v /\ parse # NoParse

\* The HH:MM token of the command is out of range.
OutOfRange(input) ==
  input.form \in {"today_at", "tomorrow_at"} /\ (input.hh > 23 \/ input.mm > 59)

\* The instant a date template with a time in range stands for, in Moscow time.
DueOf(input, hour, minute, nowUtc) ==
  LET today == (nowUtc + MOSCOW_OFFSET_HOURS * 60) \div MinutesPerDay
      day == IF input.form \in {"tomorrow_at", "tomorrow"} THEN today + 1 ELSE today
  IN day * MinutesPerDay + hour * 60 + minute - MOSCOW_OFFSET_HOURS * 60

\* C17: no task is stored with a nextReminderAt at or before the time of its
\* creation.
C17_NoPastNextReminderStored ==
  Handled("task") =>
    \A id \in DOMAIN tasks :
      tasks[id].nextReminderAt = Null \/ tasks[id].nextReminderAt > clock

\* C18: a command with a date template and a time in range whose instant is
\* at or before now gets time_in_past and no reminder is stored; a stored
\* reminder has its remindAt after now, and a successful parse stores one.
C18_TimeInPastRejected ==
  Handled("reminder") =>
    /\ \A h \in 0..23, m \in 0..59 :
         (/\ parse.input.form \in {"today_at", "tomorrow_at"}
          /\ parse.input.hh = h /\ parse.input.mm = m
          /\ DueOf(parse.input, h, m, clock) <= clock)
           => parse.reason = "time_in_past" /\ reminders = <<>>
    /\ parse.reason = "time_in_past" => reminders = <<>>
    /\ \A id \in DOMAIN reminders : reminders[id].remindAt > clock
    /\ parse.reason = "ok" <=> reminders # <<>>

\* C18 witness: "сегодня в 21:30 ..." handled at 22:00 Moscow time.
C18_Witness ==
  /\ Handled("reminder")
  /\ parse.input.form = "today_at" /\ parse.input.hh = 21 /\ parse.input.mm = 30
  /\ getMoscowNowParts(clock).hour = 22 /\ getMoscowNowParts(clock).minute = 0
  /\ parse.reason = "time_in_past"
  /\ reminders = <<>>

\* C19: a command whose HH:MM token has an hour above 23 or a minute above 59
\* gets invalid_time, and no task and no reminder is stored.
C19_OutOfRangeIsInvalidTime ==
  (parse # NoParse /\ OutOfRange(parse.input)) =>
    /\ parse.reason = "invalid_time"
    /\ tasks = <<>>
    /\ reminders = <<>>

\* C20: "сегодня <text>" without a time is due at 10:00 when the Moscow hour
\* is below 10, else at the next whole hour, 23:59 at the latest.
C20_TodayDefaultNextWholeHour ==
  (Handled("reminder") /\ parse.input.form = "today") =>
    LET hour == getMoscowNowParts(clock).hour
        due == IF hour < 10 THEN DueOf(parse.input, 10, 0, clock)
               ELSE IF hour + 1 > 23 THEN DueOf(parse.input, 23, 59, clock)
               ELSE DueOf(parse.input, hour + 1, 0, clock)
    IN IF due <= clock THEN reminders = <<>>
       ELSE \E id \in DOMAIN reminders : reminders[id].remindAt = due

\* ------------------------------------------------------- the calendar
\* JavaScript's Date arithmetic (Date.UTC, setUTCDate, getUTCFullYear ...) and
\* the Intl formatter on the proleptic Gregorian calendar: a day index is the
\* number of days since 1970-01-01.
IsLeapYear(y) == (y % 4 = 0 /\ y % 100 # 0) \/ y % 400 = 0

DaysInMonth(y, m) ==
  IF m = 2 THEN (IF IsLeapYear(y) THEN 29 ELSE 28)
  ELSE IF m \in {4, 6, 9, 11} THEN 30 ELSE 31

LeapDaysBefore(y) == (y - 1) \div 4 - (y - 1) \div 100 + (y - 1) \div 400

DaysBeforeYear(y) == 365 * (y - 1970) + LeapDaysBefore(y) - LeapDaysBefore(1970)

RECURSIVE DaysBeforeMonth(_, _)
DaysBeforeMonth(y, m) ==
  IF m = 1 THEN 0 ELSE DaysBeforeMonth(y, m - 1) + DaysInMonth(y, m - 1)

\* Date.UTC(year, month - 1, day, ...): a day beyond the end of the month
\* counts on into the next.
DaysFromCivil(y, m, d) == DaysBeforeYear(y) + DaysBeforeMonth(y, m) + d - 1

\* getUTCFullYear / getUTCMonth + 1 / getUTCDate of a day index.
CivilFromDays(n) ==
  LET y == CHOOSE yy \in (1970 + n \div 366)..(1970 + n \div 365) :
             DaysBeforeYear(yy) <= n /\ n < DaysBeforeYear(yy + 1)
      rest == n - DaysBeforeYear(y)
      m == CHOOSE mm \in 1..12 :
             DaysBeforeMonth(y, mm) <= rest /\ rest < DaysBeforeMonth(y, mm) + DaysInMonth(y, mm)
  IN [year |-> y, month |-> m, day |-> rest - DaysBeforeMonth(y, m) + 1]

\* The five values getMoscowNowParts returns for an instant.
MoscowCivil(nowUtc) ==
  LET parts == getMoscowNowParts(nowUtc)
      date == CivilFromDays(parts.day)
  IN [year |-> date.year, month |-> date.month, day |-> date.day,
      hour |-> parts.hour, minute |-> parts.minute]

\* toUtcFromMoscowDateTime(year, month, day, hour, minute) on the five values.
toUtcFromMoscowCivil(year, month, day, hour, minute) ==
  toUtcFromMoscowDateTime(DaysFromCivil(year, month, day), hour, minute)

\* ------------------------------------------------- scenario: calendar days
\* One text command reaches a bot whose store is empty on a day of the
\* calendar: in mid-month, at a month end, at the end of February in a common
\* and in a leap year, at a year end.
CalendarDates ==
  {<<2026, 2, 23>>, <<2026, 2, 28>>, <<2026, 4, 30>>, <<2026, 12, 31>>,
   <<2027, 1, 31>>, <<2028, 2, 28>>, <<2028, 2, 29>>}

CalendarTimes == {<<0, 0>>, <<12, 0>>, <<21, 0>>, <<23, 59>>}

WallClocks ==
  {[year |-> d[1], month |-> d[2], day |-> d[3], hour |-> t[1], minute |-> t[2]] :
     d \in CalendarDates, t \in CalendarTimes}

InitCalendar ==
  /\ variant \in {"task", "reminder"}
  /\ clock \in {toUtcFromMoscowCivil(w.year, w.month, w.day, w.hour, w.minute) : w \in WallClocks}
  /\ tasks = <<>>
  /\ issued = 0
  /\ sentReminders = EmptyBag
  /\ reminders = <<>>
  /\ ticks = [t \in TickIds |-> IdleTick]
  /\ ops = [o \in OpIds |-> IdleOp]
  /\ outbox = EmptyBag
  /\ processed = EmptyBag
  /\ hooks = [h \in HookIds |-> IdleHook]
  /\ cron = [secret |-> TheSecret, owner |-> "", reqs |-> [t \in TickIds |-> NoRequest]]
  /\ parse = NoParse

SpecCalendar == InitCalendar /\ [][NextParse]_vars

\* The calendar day after a date, by the lengths of the months.
NextCivilDate(date) ==
  IF date.day < DaysInMonth(date.year, date.month)
    THEN [year |-> date.year, month |-> date.month, day |-> date.day + 1]
  ELSE IF date.month < 12
    THEN [year |-> date.year, month |-> date.month + 1, day |-> 1]
  ELSE [year |-> date.year + 1, month |-> 1, day |-> 1]

\* C21: a "завтра ..." command with a time in range, or without a time, is
\* parsed successfully; the stored remindAt falls, in Moscow, on the calendar
\* day after today's, at the given time or at 10:00, and is after now.
C21_TomorrowIsNextCivilDay ==
  (/\ Handled("reminder")
   /\ parse.input.form \in {"tomorrow_at", "tomorrow"}
   /\ ~OutOfRange(parse.input)) =>
    /\ parse.reason = "ok"
    /\ \E id \in DOMAIN reminders :
         LET due == MoscowCivil(reminders[id].remindAt)
             today == MoscowCivil(clock)
             next == NextCivilDate(today)
         IN /\ due.year = next.year /\ due.month = next.month /\ due.day = next.day
            /\ due.hour = (IF parse.input.form = "tomorrow" THEN 10 ELSE parse.input.hh)
            /\ due.minute = (IF parse.input.form = "tomorrow" THEN 0 ELSE parse.input.mm)
            /\ reminders[id].remindAt > clock

\* C21 witness: "напомни завтра в 09:30 ..." handled at 12:00 on 2026-02-23
\* is stored for 2026-02-24 09:30.
C21_Witness ==
  /\ Handled("reminder")
  /\ MoscowCivil(clock) = [year |-> 2026, month |-> 2, day |-> 23, hour |-> 12, minute |-> 0]
  /\ parse.input.form = "tomorrow_at" /\ parse.input.hh = 9 /\ parse.input.mm = 30
  /\ \E id \in DOMAIN reminders :
       MoscowCivil(reminders[id].remindAt)
         = [year |-> 2026, month |-> 2, day |-> 24, hour |-> 9, minute |-> 30]

MoscowWeekday(instant) == (getMoscowNowParts(instant).day + 4) % 7

\* C22: a command that names a weekday and a time in range is stored with a
\* due instant whose Moscow weekday is the named one and whose Moscow day is
\* 1 to 7 days after today's, at every time of day.
C22_WeekdayIsNextOccurrence ==
  (Handled("task") /\ parse.input.form = "weekday_at") =>
    /\ parse.reason = "created"
    /\ \A id \in DOMAIN tasks :
         /\ MoscowWeekday(tasks[id].dueAt) = parse.input.weekday
         /\ getMoscowNowParts(tasks[id].dueAt).day - getMoscowNowParts(clock).day \in 1..7

\* ------------------------------------------------- scenario: /tick command
\* Reminder bot: reminders are created and fall due, and the only thing that
\* starts a tick is the chat command /tick, sent from the owner's chat or from
\* another one, with OWNER_CHAT_ID configured or not.
MaxCommands == 2

OwnerChats == {"", "chatA"}

Senders == {"chatA", "chatB"}

\* A bug: the sender is not compared with the owner.
Mut_ownerAllowed_AnyChat(chatId, owner) == TRUE

\* line 271: !(!ownerChatId || extracted.chatId !== ownerChatId).
ownerAllowed(chatId, owner) == owner # "" /\ chatId = owner

CommandReplies ==
  {m \in DOMAIN outbox : m.kind \in {"unavailable", "tick_ok"}}

CommandsReceived ==
  SumOver(outbox, CommandReplies)
    + Cardinality({t \in TickIds : cron.reqs[t].route = "owner"})

\* lines 270-275: the /tick branch up to the call of runCronTick.
OwnerCommand(t, chatId) ==
  /\ variant = "reminder"
  /\ ticks[t].pc \in {"idle", "done", "failed"}
  /\ cron.reqs[t].route # "owner"
  /\ IF ownerAllowed(chatId, cron.owner)
       THEN /\ cron' = [cron EXCEPT !.reqs[t] =
                          [route |-> "owner", header |-> chatId, status |-> 0]]
            /\ ticks' = [ticks EXCEPT ![t] = [IdleTick EXCEPT !.pc = "authorized"]]
            /\ UNCHANGED outbox
       ELSE /\ outbox' = BagAdd(outbox, Reply("unavailable", chatId, 0))
            /\ UNCHANGED <<cron, ticks>>
  /\ UNCHANGED <<variant, parse, processed, hooks, clock, tasks, issued, sentReminders, reminders, ops>>

\* line 275: await runCronTick("owner").
OwnerRunTick(t) ==
  /\ ticks[t].pc = "authorized"
  /\ cron.reqs[t].route = "owner"
  /\ RTickFetch(t)

\* line 276: the reply "tick ok: sent N" after the tick has returned.
OwnerReply(t) ==
  /\ variant = "reminder"
  /\ ticks[t].pc = "done"
  /\ cron.reqs[t].route = "owner"
  /\ outbox' = BagAdd(outbox, Reply("tick_ok", cron.reqs[t].header, ticks[t].count))
  /\ cron' = [cron EXCEPT !.reqs[t] = NoRequest]
  /\ UNCHANGED <<variant, parse, processed, hooks, clock, tasks, issued, sentReminders, reminders, ticks, ops>>

InitOwner ==
  /\ variant = "reminder"
  /\ InitStore
  /\ \E owner \in OwnerChats :
       cron = [secret |-> TheSecret, owner |-> owner, reqs |-> [t \in TickIds |-> NoRequest]]
  /\ parse = NoParse

NextOwner ==
  \/ \E c \in ChatIds, x \in Texts, at \in Times : issued < MaxTasks /\ createReminder(c, x, at)
  \/ \E t \in TickIds, chatId \in Senders : CommandsReceived < MaxCommands /\ OwnerCommand(t, chatId)
  \/ \E t \in TickIds : OwnerRunTick(t)
  \/ \E t \in TickIds : RTickClaim(t)
  \/ \E t \in TickIds : RTickSendOk(t)
  \/ \E t \in TickIds : RTickSendFail(t)
  \/ \E t \in TickIds : RTickRevert(t)
  \/ \E t \in TickIds : OwnerReply(t)
  \/ Tick

SpecOwner == InitOwner /\ [][NextOwner]_vars

\* The reminders Telegram accepted.
ReminderMessages == {m \in DOMAIN outbox : m.kind = "reminder"}

\* C24: /tick starts a tick only when OWNER_CHAT_ID is configured and the
\* sender's chat is that chat; a /tick from any other chat, or without an owner
\* configured, is answered "unavailable" and that step sends no reminder and
\* changes neither the reminders nor any tick; without an owner no reminder is
\* ever sent or claimed this way.
C24_TickCommandOwnerOnly ==
  /\ [][/\ \A t \in TickIds :
            (cron'.reqs[t].route = "owner" /\ cron.reqs[t].route # "owner") =>
               /\ cron.owner # ""
               /\ cron'.reqs[t].header = cron.owner
        /\ \A chatId \in Senders :
            (chatId # cron.owner \/ cron.owner = "") =>
               \A t \in TickIds :
                 (ENABLED OwnerCommand(t, chatId) /\ OwnerCommand(t, chatId)) =>
                    /\ outbox' = BagAdd(outbox, Reply("unavailable", chatId, 0))
                    /\ reminders' = reminders
                    /\ ticks' = ticks]_vars
  /\ [](cron.owner = "" =>
          /\ ReminderMessages = {}
          /\ \A id \in DOMAIN reminders : reminders[id].status = "scheduled"
          /\ \A t \in TickIds : ticks[t].pc = "idle")
  /\ [](\A t \in TickIds :
          ticks[t].pc \notin {"idle", "done", "failed"} =>
             cron.reqs[t].route = "owner" /\ cron.reqs[t].header = cron.owner)

\* C24 witness: with an owner configured and a reminder due, a /tick from
\* another chat was answered "unavailable", the reminder is still scheduled
\* and no reminder has been sent.
C24_Witness ==
  /\ cron.owner = "chatA"
  /\ BagCount(outbox, Reply("unavailable", "chatB", 0)) >= 1
  /\ \E id \in DOMAIN reminders :
       reminders[id].status = "scheduled" /\ reminders[id].remindAt <= clock
  /\ ReminderMessages = {}

\* --------------------------------------------------- claims on the batch
\* The batch is in ascending order of the nextReminderAt it was fetched with.
Ascending(batch) ==
  \A j, k \in DOMAIN batch : j < k => batch[j].nextReminderAt <= batch[k].nextReminderAt

\* C25: the batch a tick fetches holds only tasks that are active with
\* nextReminderAt at or before now at the time of the query, holds at most
\* the limit of them (100 in the tick; with a smaller limit the tasks left
\* out are not due earlier than one taken), is in ascending nextReminderAt
\* order, and the tick walks it from the front without going back, so that a
\* task it sends is never due earlier than one it sent before in this tick.
C25_BatchActiveDueAscending ==
  /\ [][variant = "task" =>
          \A t \in TickIds :
            /\ (ticks[t].pc = "fetch" /\ ticks'[t].pc # "fetch") =>
                 LET b == ticks'[t].batch IN
                   /\ Len(b) <= BatchLimit
                   /\ Ascending(b)
                   /\ \A j, k \in DOMAIN b : j # k => b[j].id # b[k].id
                   /\ \A k \in DOMAIN b :
                        /\ b[k].id \in DOMAIN tasks
                        /\ tasks[b[k].id].status = "active"
                        /\ tasks[b[k].id].nextReminderAt # Null
                        /\ tasks[b[k].id].nextReminderAt <= clock
                        /\ b[k].nextReminderAt = tasks[b[k].id].nextReminderAt
            /\ (ticks[t].pc \in {"claim", "send", "advance"}
                  /\ ticks'[t].pc \in {"claim", "send", "advance"}) =>
                 /\ ticks'[t].batch = ticks[t].batch
                 /\ ticks'[t].i >= ticks[t].i
            /\ (ticks[t].pc = "send" /\ ticks'[t].pc = "advance") =>
                 LET b == ticks[t].batch IN
                   /\ outbox' = BagAdd(outbox, ReminderMessage(b[ticks[t].i]))
                   /\ \A k \in DOMAIN b :
                        b[k].nextReminderAt < b[ticks[t].i].nextReminderAt => k < ticks[t].i]_vars
  /\ [](variant = "task" =>
          \A limit \in 0..MaxBatch :
            \A b \in fetchDueReminderBatch(clock, limit) :
              /\ Len(b) <= limit
              /\ Ascending(b)
              /\ \A id \in DueTaskIds(clock) :
                   (\A k \in DOMAIN b : b[k].id # id) =>
                      /\ Len(b) = limit
                      /\ \A k \in DOMAIN b : b[k].nextReminderAt <= tasks[id].nextReminderAt)

\* C25 witness: a tick fetched two tasks due at different times, has sent the
\* reminder of the earlier one and is about to send that of the later one.
C25_Witness ==
  /\ variant = "task"
  /\ \E t \in TickIds :
       /\ ticks[t].pc = "send"
       /\ Len(ticks[t].batch) = 2
       /\ ticks[t].i = 2
       /\ ticks[t].batch[1].nextReminderAt < ticks[t].batch[2].nextReminderAt
       /\ BagCount(outbox, ReminderMessage(ticks[t].batch[1])) >= 1

\* ------------------------------------- scenario: status claim, failing sends
\* Reminder bot: reminders are created and fall due, ticks start again and
\* again and overlap, a send succeeds or throws. The cron job keeps calling
\* (a tick that can start does), a handler that is running takes its next
\* step, and Telegram, tried again and again for a reminder, accepts it in
\* the end.
ReminderIds == 1..MaxBatch

NextStatusRevert ==
  \/ \E c \in ChatIds, x \in Texts, at \in Times : issued < MaxBatch /\ createReminder(c, x, at)
  \/ \E t \in TickIds : RTickFetch(t)
  \/ \E t \in TickIds : RTickClaim(t)
  \/ \E t \in TickIds : RTickSendOk(t)
  \/ \E t \in TickIds : RTickSendFail(t)
  \/ \E t \in TickIds : RTickRevert(t)
  \/ Tick

InitStatusRevert ==
  /\ variant = "reminder"
  /\ InitStore
  /\ cron = [secret |-> TheSecret, owner |-> "", reqs |-> [t \in TickIds |-> NoRequest]]
  /\ parse = NoParse

SpecStatusRevert ==
  /\ InitStatusRevert
  /\ [][NextStatusRevert]_vars
  /\ \A t \in TickIds : WF_vars(RTickFetch(t))
  /\ \A t \in TickIds : WF_vars(RTickClaim(t))
  /\ \A t \in TickIds : WF_vars(RTickRevert(t))
  /\ \A id \in ReminderIds :
       SF_vars(\E t \in TickIds : ticks[t].pc = "send" /\ CurrentReminder(t) = id /\ RTickSendOk(t))

SendFirstNextItem(tk) ==
  IF tk.i < Len(tk.batch) THEN [tk EXCEPT !.pc = "send", !.i = tk.i + 1]
                          ELSE [IdleTick EXCEPT !.pc = "done", !.count = tk.count]

\* lines 142-149: findMany({ status: "scheduled", remindAt <= now }, asc, 100).
SendFirstFetch(t) ==
  /\ variant = "reminder"
  /\ ticks[t].pc \in {"idle", "done", "failed"}
  /\ \E batch \in dueReminders(clock, TickBatchLimit) :
       ticks' = [ticks EXCEPT ![t] =
                   [IdleTick EXCEPT !.batch = batch,
                                    !.pc = IF Len(batch) > 0 THEN "send" ELSE "done",
                                    !.i = IF Len(batch) > 0 THEN 1 ELSE 0]]
  /\ UNCHANGED <<variant, parse, cron, processed, hooks, clock, tasks, issued, sentReminders, reminders, ops, outbox>>

\* line 154: await sendTelegramMessage(...) returns.
SendFirstSendOk(t) ==
  /\ variant = "reminder"
  /\ ticks[t].pc = "send"
  /\ outbox' = BagAdd(outbox, StatusReminderMessage(ticks[t].batch[ticks[t].i]))
  /\ ticks' = [ticks EXCEPT ![t].pc = "mark"]
  /\ UNCHANGED <<variant, parse, cron, processed, hooks, clock, tasks, issued, sentReminders, reminders, ops>>

\* lines 154, 173-176: the send throws, the catch of the route ends the tick.
SendFirstSendFail(t) ==
  /\ variant = "reminder"
  /\ ticks[t].pc = "send"
  /\ ticks' = [ticks EXCEPT ![t] = [IdleTick EXCEPT !.pc = "failed"]]
  /\ UNCHANGED <<variant, parse, cron, processed, hooks, clock, tasks, issued, sentReminders, reminders, ops, outbox>>

\* lines 156-169: updateMany({ id, status: "scheduled" } -> sent, sentAt: new
\* Date()); sent += 1 when one row changed.
SendFirstMark(t) ==
  /\ variant = "reminder"
  /\ ticks[t].pc = "mark"
  /\ LET tk == ticks[t]
         updated == claimReminder(tk.batch[tk.i].id, clock)
     IN /\ reminders' = updated.table
        /\ ticks' = [ticks EXCEPT ![t] =
                       SendFirstNextItem([tk EXCEPT !.count = tk.count + updated.count])]
  /\ UNCHANGED <<variant, parse, cron, processed, hooks, clock, tasks, issued, sentReminders, ops, outbox>>

\* One reminder that is due, overlapping and repeated ticks of this server.
NextSendFirst ==
  \/ \E t \in TickIds : SendFirstFetch(t)
  \/ \E t \in TickIds : SendFirstSendOk(t)
  \/ \E t \in TickIds : SendFirstSendFail(t)
  \/ \E t \in TickIds : SendFirstMark(t)
  \/ Tick

SpecSendFirst == InitOneDueReminder /\ [][NextSendFirst]_vars

\* C27: in the send-then-mark tick each due reminder is sent at most once,
\* also when two ticks overlap on it.
C27_SendFirstAtMostOnce ==
  \A id \in DOMAIN reminders : RemindersSent(id) <= 1

\* ------------------------------------------- parseReminderCommand on words
\* The text of a message after normalizeInput (trimmed, runs of white space
\* collapsed) is a sequence of words separated by single blanks. The words
\* that matter to the templates: the command word (напомни), the two day
\* words (завтра, сегодня), the preposition (в), a time token in range, one
\* out of range, and any other word; the strings are transliterations.
MaxWords == 4

CommandWord == "napomni"

DayWords == {"zavtra", "segodnya"}

TimeTokens == {"09:30", "25:00"}

Words == {CommandWord, "v", "slovo"} \cup DayWords \cup TimeTokens

WordInputs == UNION {[1..n -> Words] : n \in 0..MaxWords}

\* The two groups of (\d{1,2}):(\d{2}), as numbers.
TokenHour(token) == IF token = "09:30" THEN 9 ELSE 25

TokenMinute(token) == IF token = "09:30" THEN 30 ELSE 0

\* lines 75-77: value.replace(/^напомни\s+/i, "").trim(); the word alone, with
\* no blank after it, stays.
stripCommandPrefix(value) ==
  IF Len(value) >= 2 /\ value[1] = CommandWord THEN Tail(value) ELSE value

\* lines 113-116 and 153: which template matches. /\b(сегодня|завтра)\b/ has
\* no u flag: \b is a boundary between an ASCII word character and any other,
\* and there is none next to a Cyrillic word that stands between blanks or
\* at an end of the text, so the test of line 153 fails on these inputs.
TemplateOf(w) ==
  IF Len(w) >= 4 /\ w[1] \in DayWords /\ w[2] = "v" /\ w[3] \in TimeTokens
    THEN [form |-> IF w[1] = "zavtra" THEN "tomorrow_at" ELSE "today_at",
          hh |-> TokenHour(w[3]), mm |-> TokenMinute(w[3]), text |-> SubSeq(w, 4, Len(w))]
  ELSE IF Len(w) >= 2 /\ w[1] \in DayWords
    THEN [form |-> IF w[1] = "zavtra" THEN "tomorrow" ELSE "today",
          hh |-> 0, mm |-> 0, text |-> SubSeq(w, 2, Len(w))]
  ELSE [form |-> "none", hh |-> 0, mm |-> 0, text |-> <<>>]

\* parseReminderCommand on a text: the outcome and, on success, the text.
parseReminderText(value, nowUtc) ==
  LET template == TemplateOf(stripCommandPrefix(value))
      parsed == parseReminderCommand(
                  [NoInput EXCEPT !.form = template.form, !.hh = template.hh,
                                  !.mm = template.mm], nowUtc)
  IN [ok |-> parsed.ok, reason |-> parsed.reason, remindAt |-> parsed.remindAt,
      text |-> IF parsed.ok THEN template.text ELSE <<>>]

\* reminder bot, processTelegramUpdate from the parse on, for the text drawn
\* at the start: a failed parse is answered, a successful one stored.
ReminderTextCommand ==
  /\ variant = "reminder"
  /\ parse.reason = "none"
  /\ LET parsed == parseReminderText(parse.input, clock)
     IN /\ parse' = [parse EXCEPT !.reason = parsed.reason]
        /\ IF parsed.ok
             THEN \E c \in ChatIds :
                    /\ reminders' = reminders @@
                         ((issued + 1) :> NewReminderRow(c, parsed.text, parsed.remindAt))
                    /\ issued' = issued + 1
             ELSE UNCHANGED <<reminders, issued>>
  /\ UNCHANGED <<variant, cron, processed, hooks, clock, tasks, sentReminders, ticks, ops, outbox>>

InitWords ==
  /\ variant = "reminder"
  /\ clock \in ParseNows
  /\ tasks = <<>>
  /\ issued = 0
  /\ sentReminders = EmptyBag
  /\ reminders = <<>>
  /\ ticks = [t \in TickIds |-> IdleTick]
  /\ ops = [o \in OpIds |-> IdleOp]
  /\ outbox = EmptyBag
  /\ processed = EmptyBag
  /\ hooks = [h \in HookIds |-> IdleHook]
  /\ cron = [secret |-> TheSecret, owner |-> "", reqs |-> [t \in TickIds |-> NoRequest]]
  /\ \E value \in WordInputs : parse = [input |-> value, reason |-> "none"]

NextWords == ReminderTextCommand

SpecWords == InitWords /\ [][NextWords]_vars

\* The words of a message after its date / time phrase: the command word, if
\* the message starts with it, then the day word, then "v HH:MM" if it follows.
WordsAfterDatePhrase(value) ==
  LET w == IF Len(value) >= 1 /\ value[1] = CommandWord THEN Tail(value) ELSE value
      rest == IF Len(w) >= 1 /\ w[1] \in DayWords THEN Tail(w) ELSE w
  IN IF Len(rest) >= 2 /\ rest[1] = "v" /\ rest[2] \in TimeTokens
       THEN SubSeq(rest, 3, Len(rest)) ELSE rest

\* The outcome with and without the command word in front is the same.
SameOutcomeWithPrefix ==
  parseReminderText(<<CommandWord>> \o parse.input, clock)
    = parseReminderText(parse.input, clock)

\* The text of a success is what follows the date / time phrase.
TextAfterDatePhrase ==
  parseReminderText(parse.input, clock).ok =>
    parseReminderText(parse.input, clock).text = WordsAfterDatePhrase(parse.input)

\* C28: for every text X and every now, "напомни X" and X parse to the same
\* outcome (ok or the same reason, the same remindAt, the same text), and the
\* text of a success is the user's words after the date / time phrase; the
\* reminder stored carries that text.
C28_CommandWordOptional ==
  /\ SameOutcomeWithPrefix
  /\ TextAfterDatePhrase
  /\ (parse.reason = "ok") =>
        reminders[issued].text = WordsAfterDatePhrase(parse.input)

\* ------------------------------------ scenario: a claim without an advance
\* Task backend, one recurring task: ticks run again and again, a send
\* succeeds or throws, the process may restart in the middle of a tick. The
\* cron job keeps calling and a running handler takes its next step; a
\* failure or a restart may happen but need not.
NextStuckClaim ==
  \/ \E t \in TickIds : TickCleanup(t)
  \/ \E t \in TickIds : TickFetch(t)
  \/ \E t \in TickIds : TickClaim(t)
  \/ \E t \in TickIds : TickSendOk(t)
  \/ \E t \in TickIds : TickSendFail(t)
  \/ \E t \in TickIds : TickAdvance(t)
  \/ Restart
  \/ Tick

SpecStuckClaim ==
  /\ InitOneRecurringTask
  /\ [][NextStuckClaim]_vars
  /\ WF_vars(Tick)
  /\ \A t \in TickIds :
       /\ WF_vars(TickCleanup(t))
       /\ WF_vars(TickFetch(t))
       /\ WF_vars(TickClaim(t))
       /\ SF_vars(TickSendOk(t))
       /\ WF_vars(TickAdvance(t))

\* Occurrence k of the task is claimed in the ledger, the task still stands at
\* it, and no tick is between its claim of k and its advance.
ClaimedNotAdvanced(k) ==
  /\ BagCount(sentReminders, k) = 1
  /\ k[1] \in DOMAIN tasks
  /\ tasks[k[1]].nextReminderAt = k[2]
  /\ \A t \in TickIds : ticks[t].pc \in {"send", "advance"} => CurrentKey(t) # k

\* C29: when a tick claimed occurrence (task, T) and stopped before the
\* advance (the send threw, or the process restarted), later ticks move the
\* task's nextReminderAt past T.
C29_StuckClaimEventuallyAdvanced ==
  \A k \in OccurrenceKeys :
    ClaimedNotAdvanced(k) ~> (tasks[k[1]].nextReminderAt > k[2])

\* --------------------------------------- scenario: box and activate again
\* Task backend, one recurring task: ticks run again and again and every send
\* succeeds, the user puts the task into the box and activates it again with
\* the buttons. The cron job keeps calling, a running handler takes its next
\* step, the clock runs.
NextReactivate ==
  \/ \E t \in TickIds : TickCleanup(t)
  \/ \E t \in TickIds : TickFetch(t)
  \/ \E t \in TickIds : TickClaim(t)
  \/ \E t \in TickIds : TickSendOk(t)
  \/ \E t \in TickIds : TickAdvance(t)
  \/ \E o \in OpIds, kind \in {"box", "activate"}, c \in ChatIds :
       TaskActionFind(o, kind, c, TheTask)
  \/ \E o \in OpIds : TaskActionUpdate(o)
  \/ Tick

SpecReactivate ==
  /\ InitOneRecurringTask
  /\ [][NextReactivate]_vars
  /\ WF_vars(Tick)
  /\ \A o \in OpIds : WF_vars(TaskActionUpdate(o))
  /\ \A t \in TickIds :
       /\ WF_vars(TickCleanup(t))
       /\ WF_vars(TickFetch(t))
       /\ WF_vars(TickClaim(t))
       /\ WF_vars(TickSendOk(t))
       /\ WF_vars(TickAdvance(t))

\* The task is active after boxTask and activateTask, n reminders were
\* delivered for it before, and no tick or button handler is at work on it:
\* activateTask has put nextReminderAt back to dueAt, whose reminder was
\* delivered and advanced past earlier.
ReactivatedAfterDelivery(n) ==
  /\ tasks[TheTask].status = "active"
  /\ tasks[TheTask].nextReminderAt = tasks[TheTask].dueAt
  /\ OccurrenceSent(<<TheTask, tasks[TheTask].dueAt>>) = 1
  /\ RemindersSent(TheTask) = n
  /\ n >= 1
  /\ \A t \in TickIds : ticks[t].pc \in {"idle", "done", "failed"}
  /\ \A o \in OpIds : ops[o].pc = "idle"

\* C30: after a recurring task with a delivered reminder was boxed and
\* activated again, with ticks continuing and sends succeeding a later tick
\* sends a reminder for it, or another button brings it out of the active
\* state again.
C30_RemindersResumeAfterActivate ==
  \A n \in 1..(MaxTime + 1) :
    ReactivatedAfterDelivery(n)
      ~> (RemindersSent(TheTask) > n \/ tasks[TheTask].status # "active")

\* ------------------------------------ scenario: two buttons pressed at once
\* Task backend, one task as createTaskFromText stores it. Two callback
\* queries are handled concurrently (each webhook request runs its handler
\* on its own, the awaits interleave), ticks run, the clock runs.
NActions == 2

ActionSlots == 1..NActions

InitTwoActions ==
  /\ variant = "task"
  /\ \E c \in ChatIds, spec \in ParsedTaskSpecs :
       /\ ~askReminderClarification(spec)
       /\ tasks = (TheTask :> NewTaskRow(c, spec))
  /\ clock = 0
  /\ issued = 1
  /\ sentReminders = EmptyBag
  /\ reminders = <<>>
  /\ ticks = [t \in TickIds |-> IdleTick]
  /\ ops = [o \in ActionSlots |-> IdleOp]
  /\ outbox = EmptyBag
  /\ processed = EmptyBag
  /\ hooks = [h \in HookIds |-> IdleHook]
  /\ cron = [secret |-> TheSecret, owner |-> "", reqs |-> [t \in TickIds |-> NoRequest]]
  /\ parse = NoParse

NextTwoActions ==
  \/ \E o \in ActionSlots, k \in OpKinds, c \in ChatIds : TaskActionFind(o, k, c, TheTask)
  \/ \E o \in ActionSlots : TaskActionUpdate(o)
  \/ \E t \in TickIds : TickCleanup(t)
  \/ \E t \in TickIds : TickFetch(t)
  \/ \E t \in TickIds : TickClaim(t)
  \/ \E t \in TickIds : TickSendOk(t)
  \/ \E t \in TickIds : TickAdvance(t)
  \/ Tick

SpecTwoActions == InitTwoActions /\ [][NextTwoActions]_vars

\* C31: once the stored status of a task is completed or canceled, no step of
\* markDone, cancelTask, boxTask, activateTask or a tick changes it, whatever
\* the interleaving; and no task has both completedAt and canceledAt.
C31_TerminalStatusAbsorbing ==
  /\ [][\A id \in DOMAIN tasks :
          tasks[id].status \in {"completed", "canceled"} =>
             tasks'[id].status = tasks[id].status]_vars
  /\ [](\A id \in DOMAIN tasks :
          ~(tasks[id].completedAt # Null /\ tasks[id].canceledAt # Null))

\* C32: when the send for one task of the batch throws, the ledger-claim tick
\* goes on with the remaining tasks of its batch: its next step is the claim
\* of the next task.
C32_SendFailureDoesNotStopTick ==
  [][\A t \in TickIds :
       (/\ variant = "task"
        /\ ticks[t].pc = "send"
        /\ ticks'[t].pc # "send"
        /\ outbox' = outbox
        /\ ticks[t].i < Len(ticks[t].batch)) =>
          /\ ticks'[t].pc = "claim"
          /\ ticks'[t].batch = ticks[t].batch
          /\ ticks'[t].i = ticks[t].i + 1]_vars

\* ------------------------------- scenario: reminders whose send keeps failing
\* Reminder bot: reminders of two chats are created and fall due; every send
\* to one of the chats throws (the user blocked the bot), every send to the
\* other succeeds. Ticks start again and again and every handler takes its
\* next step. The cap of the batch (take: 100) is scaled down to the number
\* of rows the scenario can hold.
ScaledBatchLimit == 1

BlockedChats == {"chatB"}

StarveChats == ChatIds \cup BlockedChats

\* lines 170-178 with the scaled cap.
RTickFetchScaled(t) ==
  /\ variant = "reminder"
  /\ ticks[t].pc \in {"idle", "done", "failed"}
  /\ \E batch \in dueReminders(clock, ScaledBatchLimit) :
       ticks' = [ticks EXCEPT ![t] =
                   [IdleTick EXCEPT !.batch = batch,
                                    !.pc = IF Len(batch) > 0 THEN "claim" ELSE "done",
                                    !.i = IF Len(batch) > 0 THEN 1 ELSE 0]]
  /\ UNCHANGED <<variant, parse, cron, processed, hooks, clock, tasks, issued, sentReminders, reminders, ops, outbox>>

\* The send goes to a chat Telegram delivers to.
ReachableSendOk(t) ==
  /\ ticks[t].pc = "send"
  /\ ticks[t].batch[ticks[t].i].chatId \notin BlockedChats
  /\ RTickSendOk(t)

\* The send goes to a chat that blocked the bot: sendTelegramMessage throws.
BlockedSendFail(t) ==
  /\ ticks[t].pc = "send"
  /\ ticks[t].batch[ticks[t].i].chatId \in BlockedChats
  /\ RTickSendFail(t)

NextStarve ==
  \/ \E c \in StarveChats, x \in Texts, at \in Times : issued < MaxBatch /\ createReminder(c, x, at)
  \/ \E t \in TickIds : RTickFetchScaled(t)
  \/ \E t \in TickIds : RTickClaim(t)
  \/ \E t \in TickIds : ReachableSendOk(t)
  \/ \E t \in TickIds : BlockedSendFail(t)
  \/ \E t \in TickIds : RTickRevert(t)
  \/ Tick

SpecStarve ==
  /\ InitStatusRevert
  /\ [][NextStarve]_vars
  /\ WF_vars(Tick)
  /\ \A t \in TickIds :
       /\ WF_vars(RTickFetchScaled(t))
       /\ WF_vars(RTickClaim(t))
       /\ WF_vars(ReachableSendOk(t))
       /\ WF_vars(BlockedSendFail(t))
       /\ WF_vars(RTickRevert(t))

\* C33: with ticks repeating, every due reminder whose send would succeed is
\* eventually sent, also when earlier-due reminders fail and are reverted on
\* every tick and the batch is capped.
C33_FailingRemindersDoNotStarve ==
  \A id \in ReminderIds :
    (/\ id \in DOMAIN reminders
     /\ reminders[id].chatId \notin BlockedChats
     /\ reminders[id].status = "scheduled"
     /\ reminders[id].remindAt <= clock)
      ~> (RemindersSent(id) = 1)

\* ------------------------------------------------- ledger before side effects
\* The tables and messages a handled update writes, the ledger aside.
sideEffects == <<tasks, reminders, issued, outbox>>

\* The deliveries of update u whose ledger insert succeeded.
InsertedBy(u) == {h \in Deliveries(u) : hooks[h].inserted = "true"}

MaxButtonReplies == 2

StrangerChats == {"chatB"}

\* The callback_query handlers of the stranger; the others are the owner's.
StrangerSlots == {NActions}

StrangerReplies == {m \in DOMAIN outbox : m.chatId \in StrangerChats}

\* bot.ts, lines 195-212, with the reply kept: markDone / cancelTask / boxTask /
\* activateTask up to the update, and safeReply of an early return, which
\* swallows a failure of the send.
ButtonActionFind(o, kind, chatId, taskId) ==
  /\ variant = "task"
  /\ ops[o].pc = "idle"
  /\ SumOver(outbox, DOMAIN outbox) < MaxButtonReplies
  /\ LET task == findTaskForChat(chatId, taskId)
         early == EarlyReply(kind, task)
     IN IF early # "none"
          THEN /\ ops' = [ops EXCEPT ![o] = IdleOp]
               /\ \E delivered \in BOOLEAN :
                    outbox' = IF delivered
                                THEN BagAdd(outbox, Reply(early, chatId, taskId))
                                ELSE outbox
          ELSE /\ ops' = [ops EXCEPT ![o] =
                            [pc |-> "update", kind |-> kind, id |-> taskId,
                             snap |-> [dueAt |-> task.dueAt,
                                       remindEveryMinutes |-> task.remindEveryMinutes]]]
               /\ UNCHANGED outbox
  /\ UNCHANGED <<variant, parse, cron, processed, hooks, clock, tasks, issued, sentReminders,
                 reminders, ticks>>

NextStranger ==
  \/ \E o \in ActionSlots \ StrangerSlots, k \in OpKinds :
       TaskActionFind(o, k, tasks[TheTask].chatId, TheTask)
  \/ \E o \in StrangerSlots, k \in OpKinds, c \in StrangerChats :
       ButtonActionFind(o, k, c, TheTask)
  \/ \E o \in ActionSlots : TaskActionUpdate(o)

SpecStranger == InitTwoActions /\ [][NextStranger]_vars

\* C35: for a chat that does not own the task, each of the four actions
\* returns "not found"; the action of such a chat never gets to its update,
\* every reply it is sent says "not found", and the step that handles it
\* leaves table Task as it is.
C35_ActionsPartitionedByChat ==
  /\ [](\A id \in DOMAIN tasks, c \in StrangerChats \cup ChatIds, k \in OpKinds :
          tasks[id].chatId # c => EarlyReply(k, findTaskForChat(c, id)) = "not_found")
  /\ [](\A o \in StrangerSlots : ops[o].pc = "idle")
  /\ [](\A m \in StrangerReplies : m.kind = "not_found")
  /\ [][SumOver(outbox', {m \in DOMAIN outbox' : m.chatId \in StrangerChats})
          > SumOver(outbox, StrangerReplies) => tasks' = tasks]_vars

\* C35 witness: the stranger pressed a button on the task of another chat and
\* was told "not found"; the task is as it was stored.
C35_Witness ==
  /\ tasks[TheTask].chatId \notin StrangerChats
  /\ \E m \in StrangerReplies : m.kind = "not_found" /\ m.text = TheTask
  /\ \E spec \in ParsedTaskSpecs : tasks[TheTask] = NewTaskRow(tasks[TheTask].chatId, spec)
  /\ \A o \in ActionSlots : ops[o].pc = "idle"

\* ------------------------------------------------- scenario: create and activate
\* Tasks are created from texts with and without a date, and their owner
\* presses the four buttons on them, two callbacks at a time, while the clock
\* runs.
InitActivate ==
  /\ variant = "task"
  /\ clock = 0
  /\ tasks = <<>>
  /\ issued = 0
  /\ sentReminders = EmptyBag
  /\ reminders = <<>>
  /\ ticks = [t \in TickIds |-> IdleTick]
  /\ ops = [o \in ActionSlots |-> IdleOp]
  /\ outbox = EmptyBag
  /\ processed = EmptyBag
  /\ hooks = [h \in HookIds |-> IdleHook]
  /\ cron = [secret |-> TheSecret, owner |-> "", reqs |-> [t \in TickIds |-> NoRequest]]
  /\ parse = NoParse

NextActivate ==
  \/ \E c \in ChatIds, spec \in ParsedTaskSpecs : issued < MaxTasks /\ createTaskFromText(c, spec)
  \/ \E o \in ActionSlots, k \in OpKinds, id \in DOMAIN tasks :
       ButtonActionFind(o, k, tasks[id].chatId, id)
  \/ \E o \in ActionSlots : TaskActionUpdate(o)
  \/ Tick

SpecActivate == InitActivate /\ [][NextActivate]_vars

\* C36: in every reachable state a task whose status is active has a dueAt.
C36_ActiveHasDueAt ==
  \A id \in DOMAIN tasks : tasks[id].status = "active" => tasks[id].dueAt # Null

\* C36 witness: a task created without a date is boxed, its owner pressed
\* "activate", was told that a date is needed, and the task is still boxed.
C36_Witness ==
  \E id \in DOMAIN tasks :
    /\ tasks[id].dueAt = Null
    /\ tasks[id].status = "boxed"
    /\ BagCount(outbox, Reply("need_due", tasks[id].chatId, id)) > 0
    /\ \A o \in ActionSlots : ops[o].pc = "idle"

====
